---- MODULE Spec2Model ----
(***************************************************************************)
(* The three tools of the training recommendation agent:                   *)
(*   get_weather_forecast   (training_recommend/tools/weather.py)          *)
(*   search_nearby_venues   (training_recommend/tools/venues.py)           *)
(*   get_recommended_gear   (training_recommend/tools/gear.py)             *)
(* and the endpoints create_session and send_message of app/main.py.       *)
(*                                                                         *)
(* A Python str is a sequence of characters.  An ASCII character is the    *)
(* one-character string; a CJK character is the string "U" followed by its *)
(* code point ("U96E8" is the rain character of the labels).               *)
(* An optional dictionary entry is <<>> when the key is absent and <<v>>   *)
(* when it is present with value v.                                        *)
(***************************************************************************)
EXTENDS Integers, Sequences, FiniteSets, TLC

VARIABLES
    op,        \* the tool or endpoint invoked last ("none" before any)
    args,      \* the arguments of that invocation
    world,     \* what lay outside it: credentials, the providers' answers
    result,    \* what it returned (or the exception that escaped it)
    requests,  \* the provider calls it issued, in order
    calls,     \* the invocations running side by side: each one's locals
    seen_sets, \* the deduplication sets allocated by the running searches
    gear_table \* the module-level GEAR_MAP of gear.py

vars == <<op, args, world, result, requests, calls, seen_sets, gear_table>>

\* what the invocations that run one at a time leave alone
side_by_side == <<calls, seen_sets, gear_table>>

(***************************************************************************)
(* Bounds of the model.                                                    *)
(***************************************************************************)
\* how far below 1 and above 7 the days argument ranges
DaysBelow == 1
DaysAbove == 1
\* the most daily entries the primary provider answers with
MaxPoints == 2
\* the most 3-hourly samples the secondary provider answers with
MaxSamples == 2
\* the most places the places provider answers with for one category
MaxPlaces == 2

(***************************************************************************)
(* Python built-ins.                                                       *)
(***************************************************************************)
Min(a, b) == IF a < b THEN a ELSE b
Max(a, b) == IF a > b THEN a ELSE b

\* "abc" as the sequence <<"a", "b", "c">>
Chars(s) == [i \in 1..Len(s) |-> SubSeq(s, i, i)]

UpperAlphabet == Chars("ABCDEFGHIJKLMNOPQRSTUVWXYZ")
LowerAlphabet == Chars("abcdefghijklmnopqrstuvwxyz")

\* str.lower(): ASCII capitals are folded, every other character is kept
LowerChar(c) ==
    IF \E i \in 1..26 : UpperAlphabet[i] = c
    THEN LowerAlphabet[CHOOSE i \in 1..26 : UpperAlphabet[i] = c]
    ELSE c

Lower(s) == [i \in 1..Len(s) |-> LowerChar(s[i])]

\* a substring test that finds the empty str in nothing
ContainsSomething(b, a) ==
    /\ a # <<>>
    /\ \E i \in 1..(Len(b) - Len(a) + 1) : SubSeq(b, i, i + Len(a) - 1) = a

\* the Python test  a in b  on two str
Contains(b, a) ==
    \/ a = <<>>
    \/ \E i \in 1..(Len(b) - Len(a) + 1) : SubSeq(b, i, i + Len(a) - 1) = a

\* d.get(key, default) on an optional entry
Get(entry, default) == IF entry = <<>> THEN default ELSE entry[1]

\* x or y on two str
StrOr(x, y) == IF x # "" THEN x ELSE y

\* round(n / d) for d > 0: Python rounds halves to the even neighbour
RoundDiv(n, d) ==
    LET q == n \div d
        r == n % d
    IN  IF 2 * r < d THEN q
        ELSE IF 2 * r > d THEN q + 1
        ELSE IF q % 2 = 0 THEN q ELSE q + 1

RECURSIVE Sum(_)
Sum(s) == IF s = <<>> THEN 0 ELSE s[1] + Sum(Tail(s))

RECURSIVE SeqMax(_)
SeqMax(s) == IF Len(s) = 1 THEN s[1] ELSE Max(s[1], SeqMax(Tail(s)))

RECURSIVE SeqMin(_)
SeqMin(s) == IF Len(s) = 1 THEN s[1] ELSE Min(s[1], SeqMin(Tail(s)))

\* all sequences over S of length 0..n
SeqsUpTo(S, n) == UNION {[1..k -> S] : k \in 0..n}

\* exception classes: isinstance(e, cls)
IsInstance(exc, cls) ==
    \/ cls = exc
    \/ cls = "Exception"
    \/ cls = "RequestException" /\ exc \in {"HTTPError", "Timeout", "JSONDecodeError"}

(***************************************************************************)
(* The condition labels (weather.py).                                      *)
(***************************************************************************)
QingTian == <<"U6674", "U5929">>    \* sunny
DuoYun   == <<"U591A", "U4E91">>    \* cloudy
YuTian   == <<"U96E8", "U5929">>    \* rain
XiaoYu   == <<"U5C0F", "U96E8">>    \* light rain, drizzle
LeiYu    == <<"U96F7", "U96E8">>    \* thunderstorm
XueTian  == <<"U96EA", "U5929">>    \* snow
Wu       == <<"U96FE">>             \* fog
YinTian  == <<"U9634", "U5929">>    \* overcast
ZhenYu   == <<"U9635", "U96E8">>    \* showers
Yu       == <<"U96E8">>             \* the rain character
Xue      == <<"U96EA">>             \* the snow character

\* a dict literal as the sequence of its (key, value) pairs, in declaration order
openweather_map == <<
    <<Chars("clear"), QingTian>>,
    <<Chars("clouds"), DuoYun>>,
    <<Chars("rain"), YuTian>>,
    <<Chars("drizzle"), XiaoYu>>,
    <<Chars("thunderstorm"), LeiYu>>,
    <<Chars("snow"), XueTian>>,
    <<Chars("mist"), Wu>>,
    <<Chars("fog"), Wu>>,
    <<Chars("haze"), Wu>> >>

general_map == <<
    <<Chars("clear"), QingTian>>,
    <<Chars("sunny"), QingTian>>,
    <<Chars("partly cloudy"), DuoYun>>,
    <<Chars("cloudy"), DuoYun>>,
    <<Chars("overcast"), YinTian>>,
    <<Chars("rain"), YuTian>>,
    <<Chars("rainy"), YuTian>>,
    <<Chars("drizzle"), XiaoYu>>,
    <<Chars("showers"), ZhenYu>>,
    <<Chars("thunderstorm"), LeiYu>>,
    <<Chars("snow"), XueTian>>,
    <<Chars("snowy"), XueTian>>,
    <<Chars("mist"), Wu>>,
    <<Chars("fog"), Wu>>,
    <<Chars("foggy"), Wu>> >>

\* key in d
HasKey(d, k) == \E i \in 1..Len(d) : d[i][1] = k

\* d[k]
Lookup(d, k) == d[CHOOSE i \in 1..Len(d) : d[i][1] = k][2]

\* {**a, **b}: the keys of a in a's order with b's value where b has the key,
\* then the keys only b has, in b's order
MergeDicts(a, b) ==
    [i \in 1..Len(a) |->
        <<a[i][1], IF HasKey(b, a[i][1]) THEN Lookup(b, a[i][1]) ELSE a[i][2]>>]
    \o SelectSeq(b, LAMBDA e : ~HasKey(a, e[1]))

\* the substring loop keeping the last match instead of returning the first
LastSubstringMatch(d, s) ==
    LET hits == {i \in 1..Len(d) : Contains(s, d[i][1]) \/ Contains(d[i][1], s)}
    IN  IF hits = {} THEN 0 ELSE CHOOSE i \in hits : \A j \in hits : i >= j

\* the first entry of d, in iteration order, whose key is a substring of s or
\* has s as a substring; 0 when there is none
FirstSubstringMatch(d, s) ==
    LET hits == {i \in 1..Len(d) : Contains(s, d[i][1]) \/ Contains(d[i][1], s)}
    IN  IF hits = {} THEN 0 ELSE CHOOSE i \in hits : \A j \in hits : i <= j

\* the normalizer with the raw string returned when no table entry matches
map_condition_raw_default(condition) ==
    LET condition_lower == Lower(condition)
        union == MergeDicts(openweather_map, general_map)
        hit == FirstSubstringMatch(union, condition_lower)
    IN  IF HasKey(openweather_map, condition_lower)
            THEN Lookup(openweather_map, condition_lower)
        ELSE IF HasKey(general_map, condition_lower)
            THEN Lookup(general_map, condition_lower)
        ELSE IF hit # 0 THEN union[hit][2]
        ELSE condition

\* line 397: {**openweather_map, **general_map}
merged_map == MergeDicts(openweather_map, general_map)

map_condition_to_chinese(condition) ==
    LET condition_lower == Lower(condition)
        union == merged_map
        hit == FirstSubstringMatch(union, condition_lower)
    IN  IF HasKey(openweather_map, condition_lower)
            THEN Lookup(openweather_map, condition_lower)
        ELSE IF HasKey(general_map, condition_lower)
            THEN Lookup(general_map, condition_lower)
        ELSE IF hit # 0 THEN union[hit][2]
        ELSE DuoYun

icon_map == <<
    <<QingTian, "sun">>,
    <<DuoYun, "sun behind cloud">>,
    <<YuTian, "cloud with rain">>,
    <<XiaoYu, "sun behind rain cloud">>,
    <<LeiYu, "cloud with lightning and rain">>,
    <<XueTian, "snowflake">>,
    <<Wu, "fog">> >>

get_weather_icon(condition) ==
    IF HasKey(icon_map, condition) THEN Lookup(icon_map, condition)
    ELSE "sun behind small cloud"

(***************************************************************************)
(* Forecast entries (weather.py).  date is the number of days after today; *)
(* day_of_week is a function of the date and is left out.                  *)
(***************************************************************************)
ForecastDay(i, condition, high, low, humidity, wind_speed, precip, suitable) ==
    [date |-> i,
     condition |-> condition,
     condition_icon |-> get_weather_icon(condition),
     temperature |-> [high |-> high, low |-> low],
     humidity |-> humidity,
     wind_speed |-> wind_speed,
     precipitation_probability |-> precip,
     suitable_for_outdoor |-> suitable]

\* a day without data filled with the entry of the synthetic tier
DefaultDayFromMock(i) ==
    ForecastDay(i, <<"U6674", "U5929">>, 23 + 2 * (i % 3), 18 + 2 * (i % 3),
                60 + (i % 3) * 5, 8 + (i % 3) * 2, 20, TRUE)

\* the entry both provider tiers append for a day without data
DefaultDay(i) == ForecastDay(i, DuoYun, 22, 15, 60, 10, 20, TRUE)

NoExc == [class |-> "", text |-> ""]
Raise(class, text) == [class |-> class, text |-> text]

NoValue == [status |-> "", forecast |-> <<>>]

(***************************************************************************)
(* _get_weather_from_google.  resp is the answer of the daily-forecast     *)
(* endpoint: status_code 0 stands for no answer within the timeout.        *)
(* A day of the answer holds each field under whichever of its accepted    *)
(* names it came; numbers are integers, so round() keeps them.             *)
(***************************************************************************)
NotSupportedText == Chars("not supported for this location")
TryDifferentText == Chars("try a different location")

\* the day with the outdoor flag decided by the two labels rain and snow
GoogleDayByLabel(i, day_data) ==
    LET high_temp == Get(day_data.high, 22)
        low_temp == Get(day_data.low, 15)
        condition_data == Get(day_data.condition, [type |-> "dict", text |-> <<>>])
        condition == IF condition_data.type = "str" THEN condition_data.text[1]
                     ELSE Get(condition_data.text, DuoYun)
        condition_cn == map_condition_to_chinese(condition)
        humidity == Get(day_data.humidity, 60)
        wind0 == Get(day_data.windSpeed, 10)
        wind_speed == IF wind0 > 50 THEN RoundDiv(36 * wind0, 10) ELSE wind0
        precipitation_prob == Get(day_data.precipitationProbability, 20)
        suitable_outdoor == /\ condition_cn \notin {YuTian, XueTian}
                            /\ precipitation_prob < 50
    IN  ForecastDay(i, condition_cn, high_temp, low_temp, humidity, wind_speed,
                    precipitation_prob, suitable_outdoor)

\* lines 171-195: one day of the primary provider's data
GoogleDay(i, day_data) ==
    LET high_temp == Get(day_data.high, 22)
        low_temp == Get(day_data.low, 15)
        condition_data == Get(day_data.condition, [type |-> "dict", text |-> <<>>])
        condition == IF condition_data.type = "str" THEN condition_data.text[1]
                     ELSE Get(condition_data.text, DuoYun)
        condition_cn == map_condition_to_chinese(condition)
        humidity == Get(day_data.humidity, 60)
        wind0 == Get(day_data.windSpeed, 10)
        wind_speed == IF wind0 > 50 THEN RoundDiv(36 * wind0, 10) ELSE wind0
        precipitation_prob == Get(day_data.precipitationProbability, 20)
        suitable_outdoor == /\ ~Contains(condition_cn, Yu)
                            /\ ~Contains(condition_cn, Xue)
                            /\ precipitation_prob < 50
    IN  ForecastDay(i, condition_cn, high_temp, low_temp, humidity, wind_speed,
                    precipitation_prob, suitable_outdoor)

\* a day whose condition is JSON null: .get on it raises AttributeError
GoogleDayRaises(day_data) ==
    day_data.condition # <<>> /\ day_data.condition[1].type = "null"

\* an answer without days taken for a failure of the provider
get_weather_from_google_needs_days(days, api_key, resp) ==
    LET sent == <<[provider |-> "google", days |-> days, key |-> api_key]>>
        daily_forecasts == resp.days
        used == 1..Min(days, Len(daily_forecasts))
        forecast_list ==
            [k \in 1..days |->
                IF k <= Len(daily_forecasts)
                THEN GoogleDay(k - 1, daily_forecasts[k])
                ELSE DefaultDay(k - 1)]
        exc ==
            IF resp.status_code = 0 THEN Raise("Timeout", "timed out")
            ELSE IF resp.status_code = 404 THEN
                IF \/ Contains(Lower(resp.message), NotSupportedText)
                   \/ Contains(Lower(resp.message), TryDifferentText)
                THEN Raise("HTTPError", "Location not supported")
                ELSE Raise("HTTPError", "Weather API not available (404)")
            ELSE IF resp.status_code >= 400 THEN Raise("HTTPError", "raise_for_status")
            ELSE IF ~resp.json_ok THEN Raise("JSONDecodeError", "response.json()")
            ELSE IF daily_forecasts = <<>> THEN Raise("ValueError", "no forecast data")
            ELSE IF \E k \in used : GoogleDayRaises(daily_forecasts[k])
                THEN Raise("AttributeError", "condition")
            ELSE NoExc
    IN  [exc |-> exc,
         value |-> IF exc = NoExc
                   THEN [status |-> "success", forecast |-> forecast_list]
                   ELSE NoValue,
         requests |-> sent]

get_weather_from_google(days, api_key, resp) ==
    LET sent == <<[provider |-> "google", days |-> days, key |-> api_key]>>
        daily_forecasts == resp.days
        used == 1..Min(days, Len(daily_forecasts))
        forecast_list ==
            [k \in 1..days |->
                IF k <= Len(daily_forecasts)
                THEN GoogleDay(k - 1, daily_forecasts[k])
                ELSE DefaultDay(k - 1)]
        exc ==
            IF resp.status_code = 0 THEN Raise("Timeout", "timed out")
            ELSE IF resp.status_code = 404 THEN
                IF \/ Contains(Lower(resp.message), NotSupportedText)
                   \/ Contains(Lower(resp.message), TryDifferentText)
                THEN Raise("HTTPError", "Location not supported")
                ELSE Raise("HTTPError", "Weather API not available (404)")
            ELSE IF resp.status_code >= 400 THEN Raise("HTTPError", "raise_for_status")
            ELSE IF ~resp.json_ok THEN Raise("JSONDecodeError", "response.json()")
            ELSE IF \E k \in used : GoogleDayRaises(daily_forecasts[k])
                THEN Raise("AttributeError", "condition")
            ELSE NoExc
    IN  [exc |-> exc,
         value |-> IF exc = NoExc
                   THEN [status |-> "success", forecast |-> forecast_list]
                   ELSE NoValue,
         requests |-> sent]

(***************************************************************************)
(* _get_weather_from_openweathermap.  A sample's dt is the number of days  *)
(* after today of its local date; rain and snow are in half millimetres    *)
(* (exact in binary floating point), wind in m/s.                          *)
(***************************************************************************)
\* a sample lacking main.temp, weather[0].main or main.humidity: KeyError
OwmItemRaises(item) ==
    item.temp = <<>> \/ item.main = <<>> \/ item.humidity = <<>>

\* lines 271-273
OwmPrecipitation(item) == Get(item.rain, 0) + Get(item.snow, 0)

\* lines 287-290: the condition counted most often, the one met first among equals
MainCondition(conditions) ==
    LET count(c) == Cardinality({k \in 1..Len(conditions) : conditions[k] = c})
        best == CHOOSE k \in 1..Len(conditions) :
                    /\ \A j \in 1..Len(conditions) :
                          count(conditions[j]) <= count(conditions[k])
                    /\ \A j \in 1..(k - 1) :
                          count(conditions[j]) < count(conditions[k])
    IN  conditions[best]

\* line 294: the conditions of a day fit for outdoor training
outdoor_conditions == {Chars("Clear"), Chars("Clouds")}

\* the entry with a total of exactly 1 mm still counted as dry
OwmDayUpToOneMillimetre(i, list) ==
    LET bucket == SelectSeq(list, LAMBDA item : item.dt = i)
        n == Len(bucket)
        temps == [k \in 1..n |-> bucket[k].temp[1]]
        main_condition == MainCondition([k \in 1..n |-> bucket[k].main[1]])
        total_precip == Sum([k \in 1..n |-> OwmPrecipitation(bucket[k])])
        precip_prob == IF total_precip > 0 THEN Min(10 * total_precip, 100) ELSE 20
        suitable_outdoor ==
            /\ main_condition \in outdoor_conditions
            /\ total_precip <= 2
    IN  IF n = 0 THEN DefaultDay(i)
        ELSE ForecastDay(i,
                map_condition_to_chinese(main_condition),
                SeqMax(temps), SeqMin(temps),
                RoundDiv(Sum([k \in 1..n |-> bucket[k].humidity[1]]), n),
                RoundDiv(36 * Sum([k \in 1..n |-> Get(bucket[k].wind, 0)]), 10 * n),
                precip_prob, suitable_outdoor)

\* lines 279-303: the entry of day i from the samples of its date
OwmDay(i, list) ==
    LET bucket == SelectSeq(list, LAMBDA item : item.dt = i)
        n == Len(bucket)
        temps == [k \in 1..n |-> bucket[k].temp[1]]
        main_condition == MainCondition([k \in 1..n |-> bucket[k].main[1]])
        total_precip == Sum([k \in 1..n |-> OwmPrecipitation(bucket[k])])
        precip_prob == IF total_precip > 0 THEN Min(10 * total_precip, 100) ELSE 20
        suitable_outdoor ==
            /\ main_condition \in outdoor_conditions
            /\ total_precip < 2
    IN  IF n = 0 THEN DefaultDay(i)
        ELSE ForecastDay(i,
                map_condition_to_chinese(main_condition),
                SeqMax(temps), SeqMin(temps),
                RoundDiv(Sum([k \in 1..n |-> bucket[k].humidity[1]]), n),
                RoundDiv(36 * Sum([k \in 1..n |-> Get(bucket[k].wind, 0)]), 10 * n),
                precip_prob, suitable_outdoor)

get_weather_from_openweathermap(days, api_key, resp) ==
    LET sent == <<[provider |-> "openweathermap", days |-> days * 8, key |-> api_key]>>
        exc ==
            IF resp.status_code = 0 THEN Raise("Timeout", "timed out")
            ELSE IF resp.status_code >= 400 THEN Raise("HTTPError", "raise_for_status")
            ELSE IF ~resp.json_ok THEN Raise("JSONDecodeError", "response.json()")
            ELSE IF \E k \in 1..Len(resp.list) : OwmItemRaises(resp.list[k])
                THEN Raise("KeyError", "item")
            ELSE NoExc
    IN  [exc |-> exc,
         value |-> IF exc = NoExc
                   THEN [status |-> "success",
                         forecast |-> [k \in 1..days |-> OwmDay(k - 1, resp.list)]]
                   ELSE NoValue,
         requests |-> sent]

(***************************************************************************)
(* _get_mock_weather_forecast                                              *)
(***************************************************************************)
\* the sequence read from its second element on
mock_conditions_shifted == <<DuoYun, QingTian, XiaoYu, DuoYun, QingTian, DuoYun, QingTian>>

mock_conditions == <<QingTian, DuoYun, QingTian, XiaoYu, DuoYun, QingTian, DuoYun>>
base_temp == 20

\* the day with the variation of the temperature counted from 0
MockDayVariationFromZero(i) ==
    LET condition == mock_conditions[(i % Len(mock_conditions)) + 1]
        temp_variation == (i % 3) * 2
    IN  ForecastDay(i, condition,
            base_temp + temp_variation + 5, base_temp + temp_variation,
            60 + (i % 3) * 5, 8 + (i % 3) * 2,
            IF ~Contains(condition, Yu) THEN 20 ELSE 70,
            ~Contains(condition, Yu))

MockDay(i) ==
    LET condition == mock_conditions[(i % Len(mock_conditions)) + 1]
        temp_variation == (i % 3) * 2 - 2
    IN  ForecastDay(i, condition,
            base_temp + temp_variation + 5, base_temp + temp_variation,
            60 + (i % 3) * 5, 8 + (i % 3) * 2,
            IF ~Contains(condition, Yu) THEN 20 ELSE 70,
            ~Contains(condition, Yu))

get_mock_weather_forecast(days) ==
    [status |-> "success", forecast |-> [k \in 1..days |-> MockDay(k - 1)]]

\* lines 404-407: the label of a weekday, 0 for Monday
day_of_week_labels == <<
    <<"U5468", "U4E00">>, <<"U5468", "U4E8C">>, <<"U5468", "U4E09">>,
    <<"U5468", "U56DB">>, <<"U5468", "U4E94">>, <<"U5468", "U516D">>,
    <<"U5468", "U65E5">> >>

get_day_of_week_cn(weekday) == day_of_week_labels[weekday + 1]

\* a calendar date is the number of its day, day 0 being a Monday
Weekday(date) == date % 7

\* a forecast entry with its calendar date and the label of its weekday
Dated(entry, forecast_date) ==
    [date |-> forecast_date,
     day_of_week |-> get_day_of_week_cn(Weekday(forecast_date)),
     condition |-> entry.condition,
     condition_icon |-> entry.condition_icon,
     temperature |-> entry.temperature,
     humidity |-> entry.humidity,
     wind_speed |-> entry.wind_speed,
     precipitation_probability |-> entry.precipitation_probability,
     suitable_for_outdoor |-> entry.suitable_for_outdoor]

\* the entry of day i with the values picked by the weekday of its date
MockEntryByWeekday(latitude, longitude, i, today) ==
    Dated(MockDay(Weekday(today + i)), today + i)

\* lines 332-352 with the clock: the entry of day i when today is the date
\* datetime.now().date() gives
MockEntry(latitude, longitude, i, today) ==
    Dated(MockDay(i), today + i)

\* lines 322-354 with the coordinates and the clock
mock_weather_forecast_at(latitude, longitude, days, today) ==
    [status |-> "success",
     forecast |-> [k \in 1..days |-> MockEntry(latitude, longitude, k - 1, today)]]

(***************************************************************************)
(* get_weather_forecast                                                    *)
(***************************************************************************)
\* the clamp without its lower limit
ClampDaysUpperOnly(days) == Min(days, 7)

\* line 61
ClampDays(days) == Min(Max(days, 1), 7)

\* lines 66-70 (and venues.py 61-65): the maps key of the session context,
\* else of the environment
MapsApiKey(tool_context, environ) ==
    LET from_context == IF tool_context.present
                        THEN tool_context.maps_api_key ELSE ""
    IN  IF from_context # "" THEN from_context
        ELSE StrOr(environ.GOOGLE_MAPS_API_KEY, environ.MAPS_API_KEY)

\* line 93
OpenWeatherKey(environ) ==
    StrOr(environ.OPENWEATHER_API_KEY, environ.WEATHER_API_KEY)

\* the primary call guarded by the first except clause alone
PrimaryHandlesHttpErrorOnly(exc) == IsInstance(exc.class, "HTTPError")

\* lines 78-87: the except clauses around the primary call
PrimaryHandles(exc) ==
    IsInstance(exc.class, "HTTPError") \/ IsInstance(exc.class, "Exception")

\* lines 101-104: the except clauses around the secondary call
SecondaryHandles(exc) ==
    IsInstance(exc.class, "HTTPError") \/ IsInstance(exc.class, "Exception")

NotCalled == [exc |-> NoExc, value |-> NoValue, requests |-> <<>>]

\* the tiers consulted in the order secondary, primary, synthetic
get_weather_forecast_secondary_first(days0, tool_context, environ, google_resp, owm_resp) ==
    LET days == ClampDays(days0)
        google_api_key == MapsApiKey(tool_context, environ)
        openweather_key == OpenWeatherKey(environ)
        o == IF openweather_key # ""
             THEN get_weather_from_openweathermap(days, openweather_key, owm_resp)
             ELSE NotCalled
        g == IF google_api_key # ""
             THEN get_weather_from_google(days, google_api_key, google_resp)
             ELSE NotCalled
    IN  IF openweather_key # "" /\ o.exc = NoExc THEN
            [value |-> o.value, exc |-> NoExc, tier |-> "secondary", requests |-> o.requests]
        ELSE IF google_api_key # "" /\ g.exc = NoExc THEN
            [value |-> g.value, exc |-> NoExc, tier |-> "primary",
             requests |-> o.requests \o g.requests]
        ELSE
            [value |-> get_mock_weather_forecast(days), exc |-> NoExc,
             tier |-> "synthetic", requests |-> o.requests \o g.requests]

\* The outcome of one call: the value returned, the exception that escaped
\* (class "" when none did), the tier the value came from and the provider
\* calls issued.
get_weather_forecast(days0, tool_context, environ, google_resp, owm_resp) ==
    LET days == ClampDays(days0)
        google_api_key == MapsApiKey(tool_context, environ)
        g == IF google_api_key # ""
             THEN get_weather_from_google(days, google_api_key, google_resp)
             ELSE NotCalled
        primary_returned == google_api_key # "" /\ g.exc = NoExc
        primary_escaped == google_api_key # "" /\ g.exc # NoExc /\ ~PrimaryHandles(g.exc)
        openweather_key == OpenWeatherKey(environ)
        o == IF openweather_key # ""
             THEN get_weather_from_openweathermap(days, openweather_key, owm_resp)
             ELSE NotCalled
        secondary_returned == openweather_key # "" /\ o.exc = NoExc
        secondary_escaped == openweather_key # "" /\ o.exc # NoExc /\ ~SecondaryHandles(o.exc)
    IN  IF primary_returned THEN
            [value |-> g.value, exc |-> NoExc, tier |-> "primary", requests |-> g.requests]
        ELSE IF primary_escaped THEN
            [value |-> NoValue, exc |-> g.exc, tier |-> "", requests |-> g.requests]
        ELSE IF secondary_returned THEN
            [value |-> o.value, exc |-> NoExc, tier |-> "secondary",
             requests |-> g.requests \o o.requests]
        ELSE IF secondary_escaped THEN
            [value |-> NoValue, exc |-> o.exc, tier |-> "",
             requests |-> g.requests \o o.requests]
        ELSE
            [value |-> get_mock_weather_forecast(days), exc |-> NoExc,
             tier |-> "synthetic", requests |-> g.requests \o o.requests]

(***************************************************************************)
(* venues.py.  A place of a provider answer carries its identifier, its    *)
(* name, its rating in tenths of a star and its location; address and      *)
(* types are copied through like the name and are left out.  A location is *)
(* given by its great-circle distance from the search centre in tenths of  *)
(* a metre, which is what _calculate_distance returns for it.              *)
(***************************************************************************)
\* the sport labels that are keys of the tables of venues.py and gear.py
ChangPao     == <<"U957F", "U8DD1">>                      \* long-distance running
PaoBu        == <<"U8DD1", "U6B65">>                      \* running
YouYong      == <<"U6E38", "U6CF3">>                      \* swimming
LiLiangXunLian == <<"U529B", "U91CF", "U8BAD", "U7EC3">>  \* strength training
JianShen     == <<"U5065", "U8EAB">>                      \* fitness
YuJia        == <<"U745C", "U4F3D">>                      \* yoga
QiXing       == <<"U9A91", "U884C">>                      \* cycling
ZiXingChe    == <<"U81EA", "U884C", "U8F66">>             \* bicycle
LanQiu       == <<"U7BEE", "U7403">>                      \* basketball
YuMaoQiu     == <<"U7FBD", "U6BDB", "U7403">>             \* badminton
PaShan       == <<"U722C", "U5C71">>                      \* hiking

sport_mapping == <<
    <<ChangPao, <<"park", "route">> >>,
    <<PaoBu, <<"park", "route">> >>,
    <<Chars("running"), <<"park", "route">> >>,
    <<YouYong, <<"swimming_pool", "gym">> >>,
    <<Chars("swimming"), <<"swimming_pool", "gym">> >>,
    <<LiLiangXunLian, <<"gym", "health">> >>,
    <<JianShen, <<"gym", "health">> >>,
    <<Chars("gym"), <<"gym", "health">> >>,
    <<YuJia, <<"gym", "yoga">> >>,
    <<Chars("yoga"), <<"gym", "yoga">> >>,
    <<QiXing, <<"park", "route", "bicycle_store">> >>,
    <<ZiXingChe, <<"park", "route", "bicycle_store">> >>,
    <<Chars("cycling"), <<"park", "route", "bicycle_store">> >>,
    <<LanQiu, <<"basketball_court", "gym">> >>,
    <<YuMaoQiu, <<"gym", "sports_complex">> >>,
    <<PaShan, <<"park", "natural_feature">> >> >>

\* the matching loop run over the table from its last entry
LastLowerSubstringMatch(d, s) ==
    LET hits == {i \in 1..Len(d) :
                    Contains(s, Lower(d[i][1])) \/ Contains(Lower(d[i][1]), s)}
    IN  IF hits = {} THEN 0 ELSE CHOOSE i \in hits : \A j \in hits : i >= j

\* the first entry of d whose lower-cased key is a substring of s or has s as
\* a substring; 0 when there is none
FirstLowerSubstringMatch(d, s) ==
    LET hits == {i \in 1..Len(d) :
                    Contains(s, Lower(d[i][1])) \/ Contains(Lower(d[i][1]), s)}
    IN  IF hits = {} THEN 0 ELSE CHOOSE i \in hits : \A j \in hits : i <= j

map_sport_to_place_types(sport_type) ==
    LET sport_lower == Lower(sport_type)
        hit == FirstLowerSubstringMatch(sport_mapping, sport_lower)
    IN  IF HasKey(sport_mapping, sport_type) THEN Lookup(sport_mapping, sport_type)
        ELSE IF hit # 0 THEN sport_mapping[hit][2]
        ELSE <<"gym", "park">>

calculate_distance(location) == location.from_centre

DigitChars == Chars("0123456789")

\* str(n) for n >= 0
RECURSIVE Digits(_)
Digits(n) ==
    IF n < 10 THEN <<DigitChars[n + 1]>>
    ELSE Digits(n \div 10) \o <<DigitChars[(n % 10) + 1]>>

\* the metres rounded to the nearest instead of cut
format_distance_rounded_metres(distance) ==
    IF distance < 10000
    THEN Digits(RoundDiv(distance, 10)) \o <<"U7C73">>
    ELSE LET tenths == RoundDiv(distance, 1000)
         IN  Digits(tenths \div 10) \o <<".">> \o Digits(tenths % 10)
                \o <<"U516C", "U91CC">>

\* distance in tenths of a metre.  int() drops the fraction; .1f rounds the
\* kilometres to one decimal (a distance exactly between two tenths of a
\* kilometre is rounded as its binary representation falls; the places of
\* the model avoid it).
format_distance(distance) ==
    IF distance < 10000
    THEN Digits(distance \div 10) \o <<"U7C73">>
    ELSE LET tenths == RoundDiv(distance, 1000)
         IN  Digits(tenths \div 10) \o <<".">> \o Digits(tenths % 10)
                \o <<"U516C", "U91CC">>

\* lines 106-118
VenueInfo(place) ==
    LET distance == calculate_distance(place.geometry[1])
    IN  [name |-> place.name,
         distance |-> format_distance(distance),
         distance_meters |-> RoundDiv(distance, 10),
         rating |-> Get(place.rating, 0),
         place_id |-> place.place_id[1],
         location |-> place.geometry[1]]

\* lines 95-120: one place of an answer.  raised is set when place["geometry"]
\* is missing, after the identifier was recorded.
ProcessPlace(acc, place) ==
    IF place.place_id = <<>> \/ place.place_id[1] \in acc.seen_place_ids THEN acc
    ELSE IF place.geometry = <<>>
        THEN [acc EXCEPT !.seen_place_ids = @ \cup {place.place_id[1]},
                         !.raised = TRUE]
    ELSE [acc EXCEPT !.seen_place_ids = @ \cup {place.place_id[1]},
                     !.all_venues = Append(@, VenueInfo(place))]

\* lines 94-120: the places of one answer, up to the first that raises
RECURSIVE ScanResults(_, _)
ScanResults(acc, results) ==
    IF results = <<>> \/ acc.raised THEN acc
    ELSE ScanResults(ProcessPlace(acc, Head(results)), Tail(results))

\* lines 122-124 with continue replaced by break
AfterCategoryErrorBreak(acc) == [acc EXCEPT !.raised = FALSE, !.stopped = TRUE]

\* lines 122-124: the except clause of one category: log and continue
AfterCategoryError(acc) == [acc EXCEPT !.raised = FALSE]

\* lines 85-124: the categories from the k-th on
RECURSIVE ScanTypes(_, _, _, _)
ScanTypes(acc, place_types, k, answers) ==
    IF k > Len(place_types) \/ acc.stopped THEN acc
    ELSE LET answer == answers[place_types[k]]
             called == [acc EXCEPT !.requests =
                          Append(@, [provider |-> "places", type |-> place_types[k]])]
             scanned == IF answer.raises THEN [called EXCEPT !.raised = TRUE]
                        ELSE ScanResults(called, answer.results)
         IN  ScanTypes(IF scanned.raised THEN AfterCategoryError(scanned) ELSE scanned,
                       place_types, k + 1, answers)

\* the key with the rating ascending
KeyLessRatingAscending(x, y) ==
    \/ x.distance_meters < y.distance_meters
    \/ x.distance_meters = y.distance_meters /\ x.rating < y.rating

\* x sorts before y under the key (distance_meters, -rating)
KeyLess(x, y) ==
    \/ x.distance_meters < y.distance_meters
    \/ x.distance_meters = y.distance_meters /\ x.rating > y.rating

\* list.sort is stable: v goes behind the entries that do not sort after it
InsertSorted(sorted, v) ==
    LET before == {i \in 1..Len(sorted) : KeyLess(v, sorted[i])}
        at == IF before = {} THEN Len(sorted) + 1
              ELSE CHOOSE i \in before : \A j \in before : i <= j
    IN  SubSeq(sorted, 1, at - 1) \o <<v>> \o SubSeq(sorted, at, Len(sorted))

RECURSIVE SortVenues(_)
SortVenues(venues) ==
    IF venues = <<>> THEN <<>>
    ELSE InsertSorted(SortVenues(SubSeq(venues, 1, Len(venues) - 1)),
                      venues[Len(venues)])

\* s[:n]
SliceTo(s, n) ==
    IF n >= 0 THEN SubSeq(s, 1, Min(n, Len(s)))
    ELSE SubSeq(s, 1, Max(Len(s) + n, 0))

\* lines 67-73 with the default venues of a demo build returned instead
NoKeyResultSuccess == [status |-> "success", venues |-> <<>>]

\* lines 67-73
NoKeyResult ==
    [status |-> "error", venues |-> <<>>,
     error_message |-> "Google Maps API key not configured"]

EmptyScan ==
    [all_venues |-> <<>>, seen_place_ids |-> {}, raised |-> FALSE,
     stopped |-> FALSE, requests |-> <<>>]

\* client_ok: whether googlemaps.Client accepts the key (it raises ValueError
\* on a key it finds malformed); answers: the provider's answer per category
search_nearby_venues(sport_type, max_results, tool_context, environ, client_ok, answers) ==
    LET maps_api_key == MapsApiKey(tool_context, environ)
        place_types == map_sport_to_place_types(sport_type)
        scan == ScanTypes(EmptyScan, place_types, 1, answers)
        all_venues == SortVenues(scan.all_venues)
    IN  IF maps_api_key = "" THEN
            [value |-> NoKeyResult, requests |-> <<>>,
             all_venues |-> <<>>, seen_place_ids |-> {}]
        ELSE IF ~client_ok THEN
            [value |-> [status |-> "error", venues |-> <<>>,
                        error_message |-> "Invalid API key provided."],
             requests |-> <<>>, all_venues |-> <<>>, seen_place_ids |-> {}]
        ELSE
            [value |-> [status |-> "success",
                        venues |-> SliceTo(all_venues, max_results),
                        sport_type |-> sport_type],
             requests |-> scan.requests,
             all_venues |-> scan.all_venues,
             seen_place_ids |-> scan.seen_place_ids]

(***************************************************************************)
(* gear.py.  The items of a gear set are only copied to the caller; each   *)
(* is written as its English name.                                         *)
(***************************************************************************)
GearSet(shoes, clothing, accessories) ==
    [shoes |-> shoes, clothing |-> clothing, accessories |-> accessories]

RunningGear ==
    GearSet(<<"running shoes", "sports shoes">>,
            <<"quick-dry T-shirt", "sports shorts", "sports socks">>,
            <<"sports watch", "water bottle", "towel">>)
SwimmingGear ==
    GearSet(<<>>,
            <<"swimsuit", "swim cap", "goggles", "bath towel">>,
            <<"waterproof bag", "slippers", "toiletries">>)
StrengthGear ==
    GearSet(<<"training shoes">>,
            <<"sports vest", "sports trousers", "sports gloves">>,
            <<"water bottle", "towel", "wrist guard">>)
YogaGear ==
    GearSet(<<>>,
            <<"yoga top", "yoga pants", "sports underwear">>,
            <<"yoga mat", "yoga block", "yoga strap">>)
CyclingGear ==
    GearSet(<<"cycling shoes">>,
            <<"cycling jersey", "cycling shorts", "helmet">>,
            <<"water bottle", "gloves", "goggles">>)
BasketballGear ==
    GearSet(<<"basketball shoes">>,
            <<"sports vest", "sports shorts">>,
            <<"knee guard", "wrist guard", "water bottle">>)
BadmintonGear ==
    GearSet(<<"badminton shoes">>,
            <<"sports T-shirt", "sports shorts">>,
            <<"badminton racket", "shuttlecock", "wrist guard">>)
HikingGear ==
    GearSet(<<"hiking boots">>,
            <<"quick-dry shirt", "shell jacket", "sports trousers">>,
            <<"trekking pole", "backpack", "water bottle">>)

GEAR_MAP == <<
    <<ChangPao, RunningGear>>,
    <<PaoBu, RunningGear>>,
    <<Chars("running"), RunningGear>>,
    <<YouYong, SwimmingGear>>,
    <<Chars("swimming"), SwimmingGear>>,
    <<LiLiangXunLian, StrengthGear>>,
    <<JianShen, StrengthGear>>,
    <<Chars("gym"), StrengthGear>>,
    <<YuJia, YogaGear>>,
    <<Chars("yoga"), YogaGear>>,
    <<QiXing, CyclingGear>>,
    <<ZiXingChe, CyclingGear>>,
    <<Chars("cycling"), CyclingGear>>,
    <<LanQiu, BasketballGear>>,
    <<YuMaoQiu, BadmintonGear>>,
    <<PaShan, HikingGear>> >>

\* lines 138-142
DefaultGear ==
    GearSet(<<"sports shoes">>, <<"sportswear", "sports trousers">>,
            <<"water bottle", "towel">>)

\* the keyword loop with the test  sport_type_lower in key.lower()  alone
get_recommended_gear_contained_only(sport_type) ==
    LET sport_type_lower == Lower(sport_type)
        hits == {i \in 1..Len(GEAR_MAP) : Contains(Lower(GEAR_MAP[i][1]), sport_type_lower)}
        hit == IF hits = {} THEN 0 ELSE CHOOSE i \in hits : \A j \in hits : i <= j
    IN  [status |-> "success",
         sport_type |-> sport_type,
         recommended_gear |->
            IF HasKey(GEAR_MAP, sport_type) THEN Lookup(GEAR_MAP, sport_type)
            ELSE IF HasKey(GEAR_MAP, sport_type_lower)
                THEN Lookup(GEAR_MAP, sport_type_lower)
            ELSE IF hit # 0 THEN GEAR_MAP[hit][2]
            ELSE DefaultGear]

\* every gear set of the table is a non-empty dict, so  x or y  and  not gear
\* test whether the key was found
get_recommended_gear(sport_type) ==
    LET sport_type_lower == Lower(sport_type)
        hit == FirstLowerSubstringMatch(GEAR_MAP, sport_type_lower)
    IN  [status |-> "success",
         sport_type |-> sport_type,
         recommended_gear |->
            IF HasKey(GEAR_MAP, sport_type) THEN Lookup(GEAR_MAP, sport_type)
            ELSE IF HasKey(GEAR_MAP, sport_type_lower)
                THEN Lookup(GEAR_MAP, sport_type_lower)
            ELSE IF hit # 0 THEN GEAR_MAP[hit][2]
            ELSE DefaultGear]

(***************************************************************************)
(* The inputs of get_weather_forecast.                                     *)
(***************************************************************************)
DaysValues == (1 - DaysBelow)..(7 + DaysAbove)

\* tool_context: None, or a session state with or without the maps key
ToolContexts ==
    {[present |-> FALSE, maps_api_key |-> ""],
     [present |-> TRUE, maps_api_key |-> ""],
     [present |-> TRUE, maps_api_key |-> "session-maps-key"]}

Environ(g, m, o, w) ==
    [GOOGLE_MAPS_API_KEY |-> g, MAPS_API_KEY |-> m,
     OPENWEATHER_API_KEY |-> o, WEATHER_API_KEY |-> w]

\* os.environ: an unset variable is ""
Environs ==
    {Environ("", "", "", ""),
     Environ("google-maps-key", "", "", ""),
     Environ("", "maps-key", "", ""),
     Environ("", "", "openweather-key", ""),
     Environ("", "", "", "weather-key"),
     Environ("google-maps-key", "", "openweather-key", "")}

GDay(condition, high, low, humidity, wind, precip) ==
    [condition |-> condition, high |-> high, low |-> low, humidity |-> humidity,
     windSpeed |-> wind, precipitationProbability |-> precip]

StrCondition(text) == <<[type |-> "str", text |-> <<Chars(text)>>]>>

PlainGoogleDay == GDay(StrCondition("Clear"), <<30>>, <<20>>, <<40>>, <<12>>, <<10>>)

GoogleConditionTexts ==
    {"Clear", "SUNNY", "Mostly Cloudy", "Overcast", "Light Rain", "Showers",
     "Drizzle", "Thunderstorm", "Snow", "Fog", "Windy", ""}

\* the days the primary provider may answer with
GoogleDays ==
    {GDay(StrCondition(t), <<>>, <<>>, <<>>, <<>>, <<49>>) : t \in GoogleConditionTexts}
    \cup
    {GDay(StrCondition(t), <<>>, <<>>, <<>>, <<>>, p) :
        t \in {"Clear", "Drizzle", "Overcast"}, p \in {<<>>, <<50>>}}
    \cup
    {PlainGoogleDay,
     \* condition as an object with and without its text, absent, and null
     GDay(<<[type |-> "dict", text |-> <<Chars("Rainy")>>]>>, <<18>>, <<9>>, <<>>, <<>>, <<>>),
     GDay(<<[type |-> "dict", text |-> <<>>]>>, <<>>, <<>>, <<>>, <<>>, <<>>),
     GDay(<<>>, <<>>, <<>>, <<>>, <<>>, <<>>),
     GDay(<<[type |-> "null", text |-> <<>>]>>, <<>>, <<>>, <<>>, <<>>, <<>>),
     \* numbers outside the documented ranges, wind in m/s or km/h
     GDay(StrCondition("Clear"), <<>>, <<>>, <<130>>, <<>>, <<>>),
     GDay(StrCondition("Clear"), <<>>, <<>>, <<>>, <<>>, <<120>>),
     GDay(StrCondition("Clear"), <<>>, <<>>, <<>>, <<60>>, <<0 - 5>>)}

HttpResponse(status_code, message, json_ok, days, list) ==
    [status_code |-> status_code, message |-> message, json_ok |-> json_ok,
     days |-> days, list |-> list]

NoResponse == HttpResponse(0, <<>>, FALSE, <<>>, <<>>)

\* an answer of n plain days with one of them replaced by any day of GoogleDays
GoogleAnswers ==
    {HttpResponse(200, <<>>, TRUE, <<>>, <<>>)}
    \cup
    {HttpResponse(200, <<>>, TRUE,
                  [k \in 1..n |-> IF k = at THEN d ELSE PlainGoogleDay], <<>>) :
        n \in 1..MaxPoints, at \in 1..MaxPoints, d \in GoogleDays}


GoogleFailures ==
    {NoResponse,
     HttpResponse(404, Chars("Information is not supported for this location."),
                  TRUE, <<>>, <<>>),
     HttpResponse(404, Chars("Method not found."), TRUE, <<>>, <<>>),
     HttpResponse(500, <<>>, TRUE, <<>>, <<>>),
     HttpResponse(200, <<>>, FALSE, <<>>, <<>>)}

GoogleResponses == GoogleAnswers \cup GoogleFailures

OwmItem(dt, main, temp, humidity, wind, rain, snow) ==
    [dt |-> dt, main |-> main, temp |-> temp, humidity |-> humidity,
     wind |-> wind, rain |-> rain, snow |-> snow]

\* the samples the secondary provider may answer with
OwmItems ==
    {OwmItem(0, <<Chars("Clear")>>, <<24>>, <<50>>, <<2>>, <<>>, <<>>),
     OwmItem(0, <<Chars("Clear")>>, <<19>>, <<55>>, <<3>>, <<1>>, <<>>),
     OwmItem(0, <<Chars("Rain")>>, <<17>>, <<80>>, <<>>, <<1>>, <<>>),
     OwmItem(0, <<Chars("Squall")>>, <<15>>, <<90>>, <<9>>, <<12>>, <<1>>),
     OwmItem(1, <<Chars("Clouds")>>, <<21>>, <<61>>, <<4>>, <<>>, <<1>>),
     OwmItem(0 - 1, <<Chars("Snow")>>, <<0 - 3>>, <<70>>, <<5>>, <<>>, <<4>>),
     OwmItem(0, <<>>, <<>>, <<>>, <<>>, <<>>, <<>>)}

OwmAnswers ==
    {HttpResponse(200, <<>>, TRUE, <<>>, list) : list \in SeqsUpTo(OwmItems, MaxSamples)}

OwmFailures ==
    {NoResponse,
     HttpResponse(401, <<>>, TRUE, <<>>, <<>>),
     HttpResponse(200, <<>>, FALSE, <<>>, <<>>)}

OwmResponses == OwmAnswers \cup OwmFailures

\* after a primary call that failed, the secondary's answers are drawn from
\* its failures and its answers of at most one sample
OwmResponsesAfterPrimary ==
    OwmFailures \cup {r \in OwmAnswers : Len(r.list) <= 1}

(***************************************************************************)
(* The state machine.  The tools keep nothing between invocations: a state *)
(* is idle (op = "none"), or holds the invocation that has just ended,     *)
(* with what it met and what it returned, until the caller takes the       *)
(* result.                                                                 *)
(***************************************************************************)
Nothing == [none |-> TRUE]

\* the invocations that may run side by side
MaxCalls == 2
Procs == 1..MaxCalls

\* the locals of an invocation that is not running
IdleCall == [pc |-> "idle"]

Init ==
    /\ op = "none"
    /\ args = Nothing
    /\ world = Nothing
    /\ result = Nothing
    /\ requests = <<>>
    /\ calls = [p \in Procs |-> IdleCall]
    /\ seen_sets = [p \in Procs |-> {}]
    /\ gear_table = GEAR_MAP

\* One invocation of get_weather_forecast.  A provider that is not called
\* gives no answer.
InvokeWeather ==
    /\ op = "none"
    /\ \E days \in DaysValues, tool_context \in ToolContexts, environ \in Environs :
       \E google_resp \in IF MapsApiKey(tool_context, environ) # ""
                          THEN GoogleResponses ELSE {NoResponse} :
       \E owm_resp \in
            IF OpenWeatherKey(environ) = "" THEN {NoResponse}
            ELSE IF MapsApiKey(tool_context, environ) = "" THEN OwmResponses
            ELSE IF get_weather_from_google(ClampDays(days), "k", google_resp).exc # NoExc
                THEN OwmResponsesAfterPrimary
            ELSE {NoResponse} :
          LET out == get_weather_forecast(days, tool_context, environ,
                                          google_resp, owm_resp)
          IN  /\ op' = "weather"
              /\ args' = [days |-> days, tool_context |-> tool_context]
              /\ world' = [environ |-> environ, google |-> google_resp, owm |-> owm_resp]
              /\ result' = [value |-> out.value, exc |-> out.exc, tier |-> out.tier]
              /\ requests' = out.requests
              /\ UNCHANGED side_by_side

(***************************************************************************)
(* The inputs of search_nearby_venues.                                     *)
(***************************************************************************)
Place(place_id, name, rating, geometry) ==
    [place_id |-> place_id, name |-> name, rating |-> rating, geometry |-> geometry]

At(tenths_of_metre) == <<[from_centre |-> tenths_of_metre]>>

PlaceA == Place(<<"p1">>, "A", <<40>>, At(5000))
PlaceB == Place(<<"p2">>, "B", <<45>>, At(5004))
PlaceC == Place(<<"p3">>, "C", <<20>>, At(3000))
\* the place of PlaceA as another category lists it
PlaceA2 == Place(<<"p1">>, "A listed again", <<40>>, At(5000))
\* a place without geometry, under the identifier of PlaceC
PlaceM == Place(<<"p3">>, "M", <<30>>, <<>>)
\* a place without rating
PlaceN == Place(<<"p4">>, "N", <<>>, At(5001))
\* a place more than a kilometre away
PlaceF == Place(<<"p5">>, "F", <<48>>, At(15004))
\* a place without identifier
PlaceX == Place(<<>>, "X", <<50>>, At(100))

Places == {PlaceA, PlaceB, PlaceC, PlaceA2, PlaceM, PlaceN}

Raises == [raises |-> TRUE, results |-> <<>>]
Answers(results) == [raises |-> FALSE, results |-> results]

\* places_nearby raises, or answers with up to MaxPlaces different places
CategoryAnswers ==
    {Raises} \cup
    {Answers(r) : r \in {q \in SeqsUpTo(Places, MaxPlaces) :
                            \A i, j \in 1..Len(q) : i # j => q[i] # q[j]}}

FewCategoryAnswers == {Raises, Answers(<<>>), Answers(<<PlaceX, PlaceF>>)}

TypesOf(sport_type) ==
    LET place_types == map_sport_to_place_types(sport_type)
    IN  {place_types[k] : k \in 1..Len(place_types)}

VenueCase(tool_context, environ, client_ok, sport_type, max_results, answers) ==
    [tool_context |-> tool_context, environ |-> environ, client_ok |-> client_ok,
     sport_type |-> sport_type, max_results |-> max_results, answers |-> answers]

\* every credential source and client outcome, with few answers per category
CredentialCases ==
    UNION {
        {VenueCase(c[1], c[2], c[3], c[4], 5, a) :
            a \in IF MapsApiKey(c[1], c[2]) # "" /\ c[3]
                  THEN [TypesOf(c[4]) -> FewCategoryAnswers] ELSE {<<>>}} :
        c \in ToolContexts \X Environs \X BOOLEAN \X
              {QiXing, Chars("Swimming"), Chars("underwater hockey")}}

MaxResultsValues == {0 - 1, 0, 1, 2, 5}

\* one credential, every max_results and every answer per category
RankingCases ==
    {VenueCase([present |-> TRUE, maps_api_key |-> "session-maps-key"],
               Environ("", "", "", ""), TRUE, ChangPao, m, a) :
        m \in MaxResultsValues, a \in [TypesOf(ChangPao) -> CategoryAnswers]}

VenueCases == CredentialCases \cup RankingCases

\* One invocation of search_nearby_venues.
InvokeVenues ==
    /\ op = "none"
    /\ \E c \in VenueCases :
          LET out == search_nearby_venues(c.sport_type, c.max_results, c.tool_context,
                                          c.environ, c.client_ok, c.answers)
          IN  /\ op' = "venues"
              /\ args' = [sport_type |-> c.sport_type, max_results |-> c.max_results,
                          tool_context |-> c.tool_context]
              /\ world' = [environ |-> c.environ, client_ok |-> c.client_ok,
                           answers |-> c.answers]
              /\ result' = [value |-> out.value, all_venues |-> out.all_venues,
                            seen_place_ids |-> out.seen_place_ids]
              /\ requests' = out.requests
              /\ UNCHANGED side_by_side

(***************************************************************************)
(* The inputs of get_recommended_gear.                                     *)
(***************************************************************************)
UpperChar(c) ==
    IF \E i \in 1..26 : LowerAlphabet[i] = c
    THEN UpperAlphabet[CHOOSE i \in 1..26 : LowerAlphabet[i] = c]
    ELSE c

Capitalized(s) == [i \in 1..Len(s) |-> IF i = 1 THEN UpperChar(s[i]) ELSE s[i]]
UpperCased(s) == [i \in 1..Len(s) |-> UpperChar(s[i])]

SportKeys == {GEAR_MAP[i][1] : i \in 1..Len(GEAR_MAP)}

\* the sport labels tried: the keys, in other letter case, inside a longer
\* label, cut to a part of a key, two keys in one label, and labels that
\* have nothing to do with any key
SportLabels ==
    SportKeys
    \cup {Capitalized(k) : k \in SportKeys}
    \cup {UpperCased(k) : k \in SportKeys}
    \cup {Chars("my ") \o k \o Chars(" class") : k \in SportKeys}
    \cup UNION {{SubSeq(k, i, j) : i \in 1..Len(k), j \in 0..Len(k)} : k \in SportKeys}
    \cup {a \o <<" ">> \o b : a, b \in SportKeys}
    \cup {Chars("underwater hockey"), Chars("Pilates"), Chars("SWIMMING gym")}

\* One invocation of get_recommended_gear.
InvokeGear ==
    /\ op = "none"
    /\ \E sport_type \in SportLabels :
          /\ op' = "gear"
          /\ args' = [sport_type |-> sport_type]
          /\ world' = Nothing
          /\ result' = [value |-> get_recommended_gear(sport_type)]
          /\ requests' = <<>>
          /\ UNCHANGED side_by_side

(***************************************************************************)
(* The inputs of _map_sport_to_place_types.                                *)
(***************************************************************************)
PlaceTypeKeys == {sport_mapping[i][1] : i \in 1..Len(sport_mapping)}

\* the sport labels tried: the keys, in other letter case, inside a longer
\* label, cut to a part of a key (the empty label among them), two keys in
\* one label, and labels that have nothing to do with any key
PlaceTypeLabels ==
    PlaceTypeKeys
    \cup {Capitalized(k) : k \in PlaceTypeKeys}
    \cup {UpperCased(k) : k \in PlaceTypeKeys}
    \cup {Chars("my ") \o k \o Chars(" class") : k \in PlaceTypeKeys}
    \cup UNION {{SubSeq(k, i, j) : i \in 1..Len(k), j \in 0..Len(k)} : k \in PlaceTypeKeys}
    \cup {a \o <<" ">> \o b : a, b \in PlaceTypeKeys}
    \cup {Chars("underwater hockey"), Chars("Pilates"), Chars("YOGA swimming")}

\* One mapping of a sport label to its place types.
InvokeSportTypes ==
    /\ op = "none"
    /\ \E sport_type \in PlaceTypeLabels :
          /\ op' = "place_types"
          /\ args' = [sport_type |-> sport_type]
          /\ world' = Nothing
          /\ result' = [value |-> map_sport_to_place_types(sport_type)]
          /\ requests' = <<>>
          /\ UNCHANGED side_by_side

(***************************************************************************)
(* The inputs of _map_condition_to_chinese and _get_weather_icon.          *)
(***************************************************************************)
ConditionKeys ==
    {openweather_map[i][1] : i \in 1..Len(openweather_map)}
    \cup {general_map[i][1] : i \in 1..Len(general_map)}

\* the values of the two tables and the default of line 401
ConditionLabels ==
    {openweather_map[i][2] : i \in 1..Len(openweather_map)}
    \cup {general_map[i][2] : i \in 1..Len(general_map)}
    \cup {DuoYun}

\* the condition strings tried: the keys, in other letter case, their
\* beginnings and endings, a key inside a longer string, two keys in one
\* string, strings related to no key, and the labels themselves
ConditionStrings ==
    ConditionKeys
    \cup {Capitalized(k) : k \in ConditionKeys}
    \cup {UpperCased(k) : k \in ConditionKeys}
    \cup UNION {{SubSeq(k, 1, j) : j \in 0..Len(k)} : k \in ConditionKeys}
    \cup UNION {{SubSeq(k, i, Len(k)) : i \in 1..Len(k)} : k \in ConditionKeys}
    \cup {Chars("Light ") \o k : k \in ConditionKeys}
    \cup {a \o Chars(" and ") \o b : a, b \in {Chars("showers"), Chars("rain"),
                                                Chars("snow"), Chars("sunny"), Chars("haze")}}
    \cup {Chars("Windy"), Chars("tornado"), Chars("x")}
    \cup ConditionLabels

\* One normalization of a condition string, with the icon of its label.
InvokeNormalize ==
    /\ op = "none"
    /\ \E condition \in ConditionStrings :
          LET label == map_condition_to_chinese(condition)
          IN  /\ op' = "normalize"
              /\ args' = [condition |-> condition]
              /\ world' = Nothing
              /\ result' = [value |-> [label |-> label, icon |-> get_weather_icon(label)]]
              /\ requests' = <<>>
              /\ UNCHANGED side_by_side

(***************************************************************************)
(* The inputs of _get_mock_weather_forecast.                               *)
(***************************************************************************)
\* coordinates in tenths of a degree
Latitudes == {400, 0 - 337, 0}
Longitudes == {0 - 730, 1512, 0}

\* the dates the clock may show, MaxToday days from day 0 on
MaxToday == 7
Todays == 0..MaxToday

\* One run of the synthetic tier; days is between 1 and 7 (line 61).
InvokeMock ==
    /\ op = "none"
    /\ \E latitude \in Latitudes, longitude \in Longitudes, days \in 1..7, today \in Todays :
          /\ op' = "mock"
          /\ args' = [latitude |-> latitude, longitude |-> longitude, days |-> days]
          /\ world' = [today |-> today]
          /\ result' = [value |-> mock_weather_forecast_at(latitude, longitude, days, today)]
          /\ requests' = <<>>
          /\ UNCHANGED side_by_side

(***************************************************************************)
(* The inputs of _format_distance.                                         *)
(***************************************************************************)
\* distances in tenths of a metre: a grid of MaxDistanceSteps steps of 17.3 m,
\* which meets no distance halfway between two tenths of a kilometre, and
\* the distances around the change of unit
MaxDistanceSteps == 150

Distances ==
    {173 * k : k \in 0..MaxDistanceSteps}
    \cup {9, 10, 8500, 8509, 9994, 9999, 10000, 10001, 10499, 12500, 15000, 15004,
          17500, 99499, 99501, 123456}

\* One formatting of a distance.
InvokeFormatDistance ==
    /\ op = "none"
    /\ \E distance \in Distances :
          /\ op' = "format_distance"
          /\ args' = [distance |-> distance]
          /\ world' = Nothing
          /\ result' = [value |-> format_distance(distance)]
          /\ requests' = <<>>
          /\ UNCHANGED side_by_side

\* The caller takes the result; nothing of the invocation remains.
Return ==
    /\ op # "none"
    /\ op' = "none"
    /\ args' = Nothing
    /\ world' = Nothing
    /\ result' = Nothing
    /\ requests' = <<>>
    /\ UNCHANGED side_by_side

(***************************************************************************)
(* app/main.py: the endpoints create_session and send_message.  Each       *)
(* returns a streaming response whose body is an async generator over the  *)
(* events of runner.run_async; the generator advances one event at a time, *)
(* as the response is sent.  An item of the stream is the text between     *)
(* "data: " and the blank line that ends it.  The runner is given by what  *)
(* it does for this message: the events it yields, then the end of the run *)
(* or an exception.                                                        *)
(***************************************************************************)
\* the most events the runner yields for one message
MaxEvents == 2

DoneMarker == Chars("[DONE]")

\* lines 226-231 (110-115 in generate_welcome): what one event adds to the
\* stream: the text of each part that has one, then the marker if the event
\* is the final response
RECURSIVE PartLines(_)
PartLines(parts) ==
    IF parts = <<>> THEN <<>>
    ELSE (IF Head(parts).text # <<>> /\ Head(parts).text[1] # <<>>
          THEN <<Head(parts).text[1]>> ELSE <<>>) \o PartLines(Tail(parts))

EventLines(event) ==
    (IF event.content # <<>> THEN PartLines(event.content[1]) ELSE <<>>)
    \o (IF event.is_final_response THEN <<DoneMarker>> ELSE <<>>)

\* lines 233-246: the except clause of generate_response
ErrorLines(error_msg) ==
    (IF Contains(error_msg, Chars("403")) /\ Contains(error_msg, Chars("PERMISSION_DENIED"))
     THEN <<
       <<"U26A0", "UFE0F">> \o Chars(" API Key ") \o <<"U914D", "U7F6E", "U9519", "U8BEF", "UFF1A">>,
       <<"U9519", "U8BEF", "U4FE1", "U606F", "UFF1A">> \o error_msg,
       <<>>,
       <<"U8BF7", "U68C0", "U67E5", "UFF1A">>,
       Chars("1. ") \o <<"U8BBF", "U95EE">>
           \o Chars(" https://console.cloud.google.com/apis/credentials ")
           \o <<"U68C0", "U67E5">> \o Chars(" API Key ") \o <<"U72B6", "U6001">>,
       Chars("2. ") \o <<"U8BBF", "U95EE">> \o Chars(" https://aistudio.google.com/apikey ")
           \o <<"U521B", "U5EFA", "U65B0", "U7684">> \o Chars(" API Key"),
       Chars("3. ") \o <<"U786E", "U4FDD", "U5728">> \o Chars(" .env ")
           \o <<"U6587", "U4EF6", "U4E2D", "U6B63", "U786E", "U914D", "U7F6E", "U4E86">>
           \o Chars(" GOOGLE_API_KEY"),
       Chars("4. ") \o <<"U786E", "U4FDD", "U542F", "U7528", "U4E86">>
           \o Chars(" Generative Language API") >>
     ELSE <<
       <<"U62B1", "U6B49", "UFF0C", "U5904", "U7406", "U6D88", "U606F", "U65F6",
         "U51FA", "U73B0", "U9519", "U8BEF", "UFF1A">> \o error_msg >>)
    \o <<DoneMarker>>

\* an except clause for ValueError alone
GenerateResponseHandlesValueError(exc) == IsInstance(exc.class, "ValueError")

\* line 232: except Exception
GenerateResponseHandles(exc) == IsInstance(exc.class, "Exception")

\* not x, for a form field or any other optional str
Falsy(entry) == entry = <<>> \/ entry[1] = ""

\* a welcome message of another text
welcome_message_greeting == "HELLO"

\* lines 103-105
welcome_message == "WELCOME"

\* the response before its body is sent: status, headers, the variables the
\* body's generator closes over, and the generator's position
Response(status, headers, run, pc) ==
    [status |-> status, headers |-> headers, run |-> run, pc |-> pc,
     stream |-> <<>>, next |-> 0, exc |-> NoExc]

NoRun == [user_id |-> "", session_id |-> "", new_message |-> ""]

\* raise HTTPException(status_code=...)
HTTPException(status_code) == Response(status_code, <<>>, NoRun, "rejected")

(***************************************************************************)
(* The inputs of the endpoints.                                            *)
(***************************************************************************)
Part(text) == [text |-> text]

\* parts with a text, with the empty text and without text
PartLists ==
    { <<>>,
      <<Part(<<Chars("hi")>>)>>,
      <<Part(<<Chars("hi")>>), Part(<<Chars("ok")>>)>>,
      <<Part(<<>>), Part(<<Chars("ok")>>)>>,
      <<Part(<<Chars("")>>), Part(<<Chars("hi")>>)>> }

Events ==
    {[content |-> c, is_final_response |-> f] :
        c \in {<<>>} \cup {<<parts>> : parts \in PartLists}, f \in BOOLEAN}

\* what the runner raises after its events, if anything
RunnerErrors ==
    { Raise("ClientError", Chars("403 PERMISSION_DENIED. API key not valid")),
      Raise("ClientError", Chars("403 Forbidden")),
      Raise("ValueError", Chars("Session not found: s9")) }

RunnerScripts ==
    {[events |-> e, raises |-> r] :
        e \in SeqsUpTo(Events, MaxEvents), r \in {<<>>} \cup {<<x>> : x \in RunnerErrors}}

Form(user_id, session_id, message) ==
    [user_id |-> user_id, session_id |-> session_id, message |-> message]

Forms ==
    { Form(<<"u1">>, <<"s1">>, <<"hello">>),
      Form(<<>>, <<"s1">>, <<"hello">>),
      Form(<<"u1">>, <<>>, <<"hello">>),
      Form(<<"u1">>, <<"s1">>, <<>>),
      Form(<<"">>, <<"s1">>, <<"hello">>),
      Form(<<"u1">>, <<"">>, <<"hello">>),
      Form(<<"u1">>, <<"s1">>, <<"">>),
      Form(<<>>, <<>>, <<>>) }

\* uuid4 of line 93
UserIds == {"user_1a2b3c4d", "user_9f8e7d6c"}

\* what session_service.create_session returns: a session or nothing
Sessions == {<<>>, <<[id |-> "s1"]>>, <<[id |-> "s2"]>>}

\* lines 208-250 up to the return: send_message
InvokeSendMessage ==
    /\ op = "none"
    /\ \E form_data \in Forms :
       \E script \in IF Falsy(form_data.user_id) \/ Falsy(form_data.session_id)
                        \/ Falsy(form_data.message)
                     THEN {[events |-> <<>>, raises |-> <<>>]} ELSE RunnerScripts :
          LET user_id == form_data.user_id
              session_id == form_data.session_id
              message == form_data.message
          IN  /\ op' = "send_message"
              /\ args' = form_data
              /\ world' = [script |-> script]
              /\ result' =
                    IF Falsy(user_id) \/ Falsy(session_id) \/ Falsy(message)
                    THEN HTTPException(400)
                    ELSE Response(200, <<>>,
                                  [user_id |-> user_id[1], session_id |-> session_id[1],
                                   new_message |-> message[1]], "ready")
              /\ requests' = <<>>
              /\ UNCHANGED side_by_side

\* lines 86-126 up to the return: create_session
InvokeCreateSession ==
    /\ op = "none"
    /\ \E user_id \in UserIds, session \in Sessions :
       \E script \in IF session = <<>> THEN {[events |-> <<>>, raises |-> <<>>]}
                     ELSE RunnerScripts :
          /\ op' = "create_session"
          /\ args' = Nothing
          /\ world' = [script |-> script, user_id |-> user_id, session |-> session]
          /\ result' =
                IF session = <<>> THEN HTTPException(500)
                ELSE Response(200,
                              ("X-User-Id" :> user_id) @@ ("X-Session-Id" :> session[1].id),
                              [user_id |-> user_id, session_id |-> session[1].id,
                               new_message |-> welcome_message], "ready")
          /\ requests' = <<[provider |-> "session_service", user_id |-> user_id]>>
          /\ UNCHANGED side_by_side

\* lines 224-226 (108-110): the body starts: runner.run_async is called
StartStream ==
    /\ op \in {"send_message", "create_session"}
    /\ result.pc = "ready"
    /\ result' = [result EXCEPT !.pc = "relaying", !.next = 1]
    /\ requests' = Append(requests, [provider |-> "runner",
                                     user_id |-> result.run.user_id,
                                     session_id |-> result.run.session_id,
                                     new_message |-> result.run.new_message])
    /\ UNCHANGED <<op, args, world>>
    /\ UNCHANGED side_by_side

\* lines 224-231 (108-115): the runner yields its next event
RelayEvent ==
    /\ op \in {"send_message", "create_session"}
    /\ result.pc = "relaying"
    /\ result.next <= Len(world.script.events)
    /\ result' = [result EXCEPT !.stream = @ \o EventLines(world.script.events[result.next]),
                                !.next = @ + 1]
    /\ UNCHANGED <<op, args, world, requests>>
    /\ UNCHANGED side_by_side

\* the run ends, and the body with it
RunnerEnds ==
    /\ op \in {"send_message", "create_session"}
    /\ result.pc = "relaying"
    /\ result.next > Len(world.script.events)
    /\ world.script.raises = <<>>
    /\ result' = [result EXCEPT !.pc = "closed"]
    /\ UNCHANGED <<op, args, world, requests>>
    /\ UNCHANGED side_by_side

\* lines 232-246: the runner raises inside generate_response
RunnerRaisesInResponse ==
    /\ op = "send_message"
    /\ result.pc = "relaying"
    /\ result.next > Len(world.script.events)
    /\ world.script.raises # <<>>
    /\ LET e == world.script.raises[1]
       IN  result' = IF GenerateResponseHandles(e)
                     THEN [result EXCEPT !.stream = @ \o ErrorLines(e.text),
                                         !.pc = "closed"]
                     ELSE [result EXCEPT !.exc = e, !.pc = "aborted"]
    /\ UNCHANGED <<op, args, world, requests>>
    /\ UNCHANGED side_by_side

\* lines 108-116: the runner raises inside generate_welcome, which has no
\* except clause
RunnerRaisesInWelcome ==
    /\ op = "create_session"
    /\ result.pc = "relaying"
    /\ result.next > Len(world.script.events)
    /\ world.script.raises # <<>>
    /\ result' = [result EXCEPT !.exc = world.script.raises[1], !.pc = "aborted"]
    /\ UNCHANGED <<op, args, world, requests>>
    /\ UNCHANGED side_by_side

(***************************************************************************)
(* Invocations of search_nearby_venues and get_recommended_gear running    *)
(* side by side, as the per-day pairs of one plan may.  Each invocation    *)
(* advances by steps of its own code; the steps of different invocations   *)
(* interleave in any order.  An invocation's locals are its own; the       *)
(* objects it allocates lie in seen_sets, and GEAR_MAP is the one table    *)
(* of the module.                                                          *)
(***************************************************************************)
\* the answers per category a search running beside others may get
SideAnswers ==
    {[c \in TypesOf(ChangPao) |-> Answers(<<PlaceA>>)],
     [c \in TypesOf(ChangPao) |-> IF c = "park" THEN Answers(<<PlaceC, PlaceA2>>)
                                  ELSE Answers(<<PlaceA>>)],
     [c \in TypesOf(ChangPao) |-> IF c = "park" THEN Raises ELSE Answers(<<PlaceB, PlaceM>>)]}

\* the searches that may run beside others: with the session's key, and
\* one without any key
SideSearches ==
    {VenueCase([present |-> TRUE, maps_api_key |-> "session-maps-key"],
               Environ("", "", "", ""), TRUE, ChangPao, 5, a) : a \in SideAnswers}
    \cup {VenueCase([present |-> FALSE, maps_api_key |-> ""],
                    Environ("", "", "", ""), TRUE, ChangPao, 5,
                    [c \in TypesOf(ChangPao) |-> Raises])}

SideLabels == {YuJia, Chars("Swimming"), Chars("underwater hockey")}

\* the set a search that shares the set of the first invocation would use
SeenCellOfFirstCall(p) == 1

\* venues.py line 82: seen_place_ids = set() makes a set of the invocation's own
SeenCell(p) == p

\* search_nearby_venues is entered
BeginVenues(p) ==
    /\ calls[p].pc = "idle"
    /\ \E c \in SideSearches :
          calls' = [calls EXCEPT ![p] =
                       [pc |-> "key", kind |-> "venues", input |-> c]]
    /\ UNCHANGED <<op, args, world, result, requests, seen_sets, gear_table>>

\* venues.py lines 61-73: the key is looked up; without one the error result
\* is returned
ReadKey(p) ==
    /\ calls[p].pc = "key"
    /\ calls' = [calls EXCEPT ![p] =
          IF MapsApiKey(calls[p].input.tool_context, calls[p].input.environ) = ""
          THEN [pc |-> "done", kind |-> "venues", input |-> calls[p].input,
                value |-> NoKeyResult]
          ELSE [pc |-> "client", kind |-> "venues", input |-> calls[p].input]]
    /\ UNCHANGED <<op, args, world, result, requests, seen_sets, gear_table>>

\* venues.py lines 76-82: the client, the place types and the empty
\* accumulators
NewClient(p) ==
    /\ calls[p].pc = "client"
    /\ calls' = [calls EXCEPT ![p] =
          [pc |-> "call", kind |-> "venues", input |-> calls[p].input,
           place_types |-> map_sport_to_place_types(calls[p].input.sport_type),
           k |-> 1, pending |-> <<>>, all_venues |-> <<>>]]
    /\ seen_sets' = [seen_sets EXCEPT ![SeenCell(p)] = {}]
    /\ UNCHANGED <<op, args, world, result, requests, gear_table>>

\* venues.py lines 85-92 and 122-124: places_nearby is called for the k-th
\* place type; when it raises the loop continues with the next type
CallPlaces(p) ==
    /\ calls[p].pc = "call"
    /\ calls[p].k <= Len(calls[p].place_types)
    /\ LET answer == calls[p].input.answers[calls[p].place_types[calls[p].k]]
       IN  calls' = [calls EXCEPT ![p] =
              IF answer.raises \/ answer.results = <<>>
              THEN [@ EXCEPT !.k = @ + 1]
              ELSE [@ EXCEPT !.pc = "place", !.pending = answer.results]]
    /\ UNCHANGED <<op, args, world, result, requests, seen_sets, gear_table>>

\* venues.py lines 94-124: the next place of the answer is processed; a place
\* that raises ends its category
TakePlace(p) ==
    /\ calls[p].pc = "place"
    /\ LET acc == ProcessPlace([EmptyScan EXCEPT
                                   !.all_venues = calls[p].all_venues,
                                   !.seen_place_ids = seen_sets[SeenCell(p)]],
                               Head(calls[p].pending))
           last == acc.raised \/ Len(calls[p].pending) = 1
       IN  /\ calls' = [calls EXCEPT ![p] =
                 [@ EXCEPT !.all_venues = acc.all_venues,
                           !.pending = IF last THEN <<>> ELSE Tail(@),
                           !.pc = IF last THEN "call" ELSE "place",
                           !.k = IF last THEN @ + 1 ELSE @]]
           /\ seen_sets' = [seen_sets EXCEPT ![SeenCell(p)] = acc.seen_place_ids]
    /\ UNCHANGED <<op, args, world, result, requests, gear_table>>

\* venues.py lines 127-137: after the last place type the venues are sorted,
\* cut and returned
SortAndReturn(p) ==
    /\ calls[p].pc = "call"
    /\ calls[p].k > Len(calls[p].place_types)
    /\ calls' = [calls EXCEPT ![p] =
          [pc |-> "done", kind |-> "venues", input |-> calls[p].input,
           value |-> [status |-> "success",
                      venues |-> SliceTo(SortVenues(calls[p].all_venues),
                                         calls[p].input.max_results),
                      sport_type |-> calls[p].input.sport_type]]]
    /\ UNCHANGED <<op, args, world, result, requests, seen_sets, gear_table>>

\* get_recommended_gear is entered
BeginGear(p) ==
    /\ calls[p].pc = "idle"
    /\ \E sport_type \in SideLabels :
          calls' = [calls EXCEPT ![p] =
                       [pc |-> "lookup", kind |-> "gear", sport_type |-> sport_type]]
    /\ UNCHANGED <<op, args, world, result, requests, seen_sets, gear_table>>

\* gear.py lines 124-134: the label is looked up in GEAR_MAP, exactly and
\* then by substring; gear is <<>> when nothing is found
LookupGear(p) ==
    /\ calls[p].pc = "lookup"
    /\ LET sport_type == calls[p].sport_type
           sport_type_lower == Lower(sport_type)
           hit == FirstLowerSubstringMatch(gear_table, sport_type_lower)
           gear == IF HasKey(gear_table, sport_type)
                       THEN <<Lookup(gear_table, sport_type)>>
                   ELSE IF HasKey(gear_table, sport_type_lower)
                       THEN <<Lookup(gear_table, sport_type_lower)>>
                   ELSE IF hit # 0 THEN <<gear_table[hit][2]>>
                   ELSE <<>>
       IN  calls' = [calls EXCEPT ![p] =
              [pc |-> "default", kind |-> "gear", sport_type |-> sport_type,
               gear |-> gear]]
    /\ UNCHANGED <<op, args, world, result, requests, seen_sets, gear_table>>

\* gear.py lines 136-148: the default when nothing was found, and the return
ReturnGear(p) ==
    /\ calls[p].pc = "default"
    /\ calls' = [calls EXCEPT ![p] =
          [pc |-> "done", kind |-> "gear", sport_type |-> calls[p].sport_type,
           value |-> [status |-> "success", sport_type |-> calls[p].sport_type,
                      recommended_gear |-> Get(calls[p].gear, DefaultGear)]]]
    /\ UNCHANGED <<op, args, world, result, requests, seen_sets, gear_table>>

\* the caller takes the result of a finished invocation; its locals and the
\* set it allocated are gone
Collect(p) ==
    /\ calls[p].pc = "done"
    /\ calls' = [calls EXCEPT ![p] = IdleCall]
    /\ seen_sets' = IF calls[p].kind = "venues"
                    THEN [seen_sets EXCEPT ![SeenCell(p)] = {}] ELSE seen_sets
    /\ UNCHANGED <<op, args, world, result, requests, gear_table>>

NextSideBySide ==
    \E p \in Procs :
        \/ BeginVenues(p) \/ ReadKey(p) \/ NewClient(p) \/ CallPlaces(p)
        \/ TakePlace(p) \/ SortAndReturn(p)
        \/ BeginGear(p) \/ LookupGear(p) \/ ReturnGear(p)
        \/ Collect(p)

SpecSideBySide == Init /\ [][NextSideBySide]_vars

NextWeather == InvokeWeather \/ Return

SpecWeather == Init /\ [][NextWeather]_vars

NextVenues == InvokeVenues \/ Return

SpecVenues == Init /\ [][NextVenues]_vars

NextGear == InvokeGear \/ Return

SpecGear == Init /\ [][NextGear]_vars

NextConditions == InvokeNormalize \/ Return

SpecConditions == Init /\ [][NextConditions]_vars

NextDistance == InvokeFormatDistance \/ Return

SpecDistance == Init /\ [][NextDistance]_vars

\* the mapping of sport labels on its own and inside the venue search
NextPlaceTypes == InvokeSportTypes \/ InvokeVenues \/ Return

SpecPlaceTypes == Init /\ [][NextPlaceTypes]_vars

\* the three lookups by label
NextLookups == InvokeGear \/ InvokeSportTypes \/ InvokeNormalize \/ Return

SpecLookups == Init /\ [][NextLookups]_vars

NextSendMessage ==
    \/ InvokeSendMessage \/ StartStream \/ RelayEvent \/ RunnerEnds
    \/ RunnerRaisesInResponse \/ Return

SpecSendMessage == Init /\ [][NextSendMessage]_vars

NextCreateSession ==
    \/ InvokeCreateSession \/ StartStream \/ RelayEvent \/ RunnerEnds
    \/ RunnerRaisesInWelcome \/ Return

SpecCreateSession == Init /\ [][NextCreateSession]_vars

NextMock == InvokeMock \/ Return

SpecMock == Init /\ [][NextMock]_vars

Next ==
    \/ InvokeWeather \/ InvokeVenues \/ InvokeGear \/ InvokeNormalize \/ InvokeMock
    \/ InvokeFormatDistance \/ InvokeSportTypes
    \/ InvokeSendMessage \/ InvokeCreateSession \/ StartStream \/ RelayEvent
    \/ RunnerEnds \/ RunnerRaisesInResponse \/ RunnerRaisesInWelcome
    \/ Return
    \/ NextSideBySide

Spec == Init /\ [][Next]_vars

(***************************************************************************)
(* Properties of get_weather_forecast.                                     *)
(***************************************************************************)
\* what the claims call the credentials and the outcomes of a provider call,
\* read off the invocation's arguments and surroundings
PrimaryCredential ==
    \/ args.tool_context.present /\ args.tool_context.maps_api_key # ""
    \/ world.environ.GOOGLE_MAPS_API_KEY # ""
    \/ world.environ.MAPS_API_KEY # ""

SecondaryCredential ==
    world.environ.OPENWEATHER_API_KEY # "" \/ world.environ.WEATHER_API_KEY # ""

RequestedDays ==
    IF args.days < 1 THEN 1 ELSE IF args.days > 7 THEN 7 ELSE args.days

\* the answer is a 2xx with a JSON body whose days, as far as they are read,
\* are well formed
PrimaryAnswerGood ==
    /\ world.google.status_code = 200
    /\ world.google.json_ok
    /\ \A k \in 1..Len(world.google.days) :
          k <= RequestedDays =>
             \/ world.google.days[k].condition = <<>>
             \/ world.google.days[k].condition[1].type # "null"

SecondaryAnswerGood ==
    /\ world.owm.status_code = 200
    /\ world.owm.json_ok
    /\ \A k \in 1..Len(world.owm.list) :
          /\ world.owm.list[k].temp # <<>>
          /\ world.owm.list[k].main # <<>>
          /\ world.owm.list[k].humidity # <<>>

Providers == [k \in 1..Len(requests) |-> requests[k].provider]

Forecast == result.value.forecast

\* C1: get_weather_forecast never fails: whatever credentials are present
\* and whatever each provider call does, no exception escapes and the status
\* returned is "success".
C1_WeatherNeverFails ==
    op = "weather" => result.exc = NoExc /\ result.value.status = "success"

\* both remote tiers were called and failed, the primary by a timeout and the
\* secondary by a body that is no JSON
C1_Witness ==
    /\ op = "weather"
    /\ Providers = <<"google", "openweathermap">>
    /\ world.google.status_code = 0
    /\ world.owm.status_code = 200 /\ ~world.owm.json_ok
    /\ result.exc = NoExc
    /\ result.value.status = "success"

\* C2: in every tier and whatever number of data points the provider
\* returned, the forecast has exactly clamp(days, 1, 7) entries, and a days
\* outside 1..7 gives the request sizes and the result of the nearest limit.
C2_LengthIsClampedDays ==
    op = "weather" =>
        LET at_limit == get_weather_forecast(RequestedDays, args.tool_context,
                            world.environ, world.google, world.owm)
        IN  /\ Len(Forecast) = RequestedDays
            /\ \A k \in 1..Len(requests) :
                  requests[k].days = IF requests[k].provider = "google"
                                     THEN RequestedDays ELSE 8 * RequestedDays
            /\ result.value = at_limit.value
            /\ result.tier = at_limit.tier
            /\ requests = at_limit.requests

\* days below 1 answered by the primary provider with more points than asked
C2_Witness ==
    /\ op = "weather"
    /\ args.days < 1
    /\ result.tier = "primary"
    /\ Len(world.google.days) = 2
    /\ Len(Forecast) = 1

\* days above 7 answered by the secondary provider with fewer dates than asked
C2_WitnessAbove ==
    /\ op = "weather"
    /\ args.days > 7
    /\ result.tier = "secondary"
    /\ Len(world.owm.list) = 1
    /\ Len(Forecast) = 7

NormalizedVocabulary ==
    {QingTian, DuoYun, YuTian, XiaoYu, LeiYu, XueTian, Wu, YinTian, ZhenYu}

\* C10: every condition of every forecast entry returned, in all three tiers
\* and for every raw string of a provider, is a label of the normalized
\* vocabulary; a raw provider string is never returned.
C10_ConditionsNormalized ==
    op = "weather" =>
        \A k \in 1..Len(Forecast) : Forecast[k].condition \in NormalizedVocabulary

\* the primary provider sent a condition that no table entry matches
C10_Witness ==
    /\ op = "weather"
    /\ result.tier = "primary"
    /\ Len(world.google.days) >= 1
    /\ world.google.days[1].condition = StrCondition("Windy")
    /\ Forecast[1].condition = DuoYun

\* the call of the scenario: no credential anywhere and days = 3
NoCredentialsThreeDays ==
    /\ op = "weather"
    /\ ~PrimaryCredential
    /\ ~SecondaryCredential
    /\ args.days = 3

\* C12 as stated: with no credentials and days = 3 the forecast has 3
\* entries with the conditions sunny, cloudy, sunny, the high temperatures
\* 25, 27, 29 and all three days fit for outdoor training.
C12_MockScenario ==
    NoCredentialsThreeDays =>
        /\ Len(Forecast) = 3
        /\ [k \in 1..3 |-> Forecast[k].condition] = <<QingTian, DuoYun, QingTian>>
        /\ [k \in 1..3 |-> Forecast[k].temperature.high] = <<25, 27, 29>>
        /\ [k \in 1..3 |-> Forecast[k].suitable_for_outdoor] = <<TRUE, TRUE, TRUE>>

\* C12 amended: with no credentials and days = 3 the forecast has 3 entries
\* with the conditions sunny, cloudy, sunny, the high temperatures 23, 25, 27
\* and all three days fit for outdoor training.
C12_MockScenarioAmended ==
    NoCredentialsThreeDays =>
        /\ Len(Forecast) = 3
        /\ [k \in 1..3 |-> Forecast[k].condition] = <<QingTian, DuoYun, QingTian>>
        /\ [k \in 1..3 |-> Forecast[k].temperature.high] = <<23, 25, 27>>
        /\ [k \in 1..3 |-> Forecast[k].suitable_for_outdoor] = <<TRUE, TRUE, TRUE>>

\* the scenario ran, without a session context, and no provider was called
C12_Witness ==
    /\ NoCredentialsThreeDays
    /\ ~args.tool_context.present
    /\ requests = <<>>
    /\ result.tier = "synthetic"
    /\ result.value.status = "success"

\* a forecast without the fields that depend on the clock
Timeless(forecast) ==
    [k \in 1..Len(forecast) |->
        [condition |-> forecast[k].condition,
         condition_icon |-> forecast[k].condition_icon,
         temperature |-> forecast[k].temperature,
         humidity |-> forecast[k].humidity,
         wind_speed |-> forecast[k].wind_speed,
         precipitation_probability |-> forecast[k].precipitation_probability,
         suitable_for_outdoor |-> forecast[k].suitable_for_outdoor]]

\* C13: the synthetic tier is deterministic: a run with the same days at any
\* other date and for any other coordinates yields the same conditions,
\* temperatures, humidities, winds, precipitation probabilities and outdoor
\* flags; only date and weekday follow the clock.
C13_MockDeterministic ==
    op = "mock" =>
        \A latitude \in Latitudes, longitude \in Longitudes, today \in Todays :
            LET other == mock_weather_forecast_at(latitude, longitude, args.days, today)
            IN  /\ Timeless(other.forecast) = Timeless(result.value.forecast)
                /\ other.status = result.value.status
                /\ \A k \in 1..Len(other.forecast) :
                      other.forecast[k].date - result.value.forecast[k].date
                         = today - world.today

\* a run of a week started on a Wednesday in the southern hemisphere
C13_Witness ==
    /\ op = "mock"
    /\ args.days = 7
    /\ args.latitude < 0
    /\ world.today = 2
    /\ result.value.forecast[1].day_of_week = <<"U5468", "U4E09">>
    /\ result.value.forecast[4].condition = XiaoYu

\* C15: every forecast entry returned has its humidity and its
\* precipitation probability between 0 and 100, in every tier and whatever
\* values the providers send.
C15_PercentagesInRange ==
    op = "weather" =>
        \A k \in 1..Len(Forecast) :
            /\ Forecast[k].humidity \in 0..100
            /\ Forecast[k].precipitation_probability \in 0..100

\* the part of C15 that holds: the entries of the secondary and synthetic
\* tiers have their precipitation probability between 0 and 100
C15_DerivedProbabilityInRange ==
    op = "weather" /\ result.tier \in {"secondary", "synthetic"} =>
        \A k \in 1..Len(Forecast) : Forecast[k].precipitation_probability \in 0..100

\* the days of the forecast built from data of the primary provider
PrimaryDays ==
    IF op = "weather" /\ result.tier = "primary"
    THEN 1..Min(Len(Forecast), Len(world.google.days)) ELSE {}

\* the precipitation probability the provider sent for day k, 20 when none
ProbabilitySent(k) == Get(world.google.days[k].precipitationProbability, 20)

\* C19 as stated: a day built from primary-provider data is fit for outdoor
\* training exactly when its condition is neither the label rain nor the
\* label snow and its precipitation probability is below 50.
C19_OutdoorPrimary ==
    \A k \in PrimaryDays :
        Forecast[k].suitable_for_outdoor <=>
            /\ Forecast[k].condition \notin {YuTian, XueTian}
            /\ ProbabilitySent(k) < 50

\* the labels of rain and snow in any form: rain, light rain, thunderstorm,
\* showers and snow
WetLabels == {YuTian, XiaoYu, LeiYu, ZhenYu, XueTian}

\* C19 amended: a day built from primary-provider data is fit for outdoor
\* training exactly when its condition is none of the labels rain, light
\* rain, thunderstorm, showers and snow and the precipitation probability
\* the provider sent (20 when it sent none) is below 50.
C19_OutdoorPrimaryAmended ==
    \A k \in PrimaryDays :
        Forecast[k].suitable_for_outdoor <=>
            /\ Forecast[k].condition \notin WetLabels
            /\ ProbabilitySent(k) < 50

\* the primary provider sent drizzle with a probability of 49 and the day is
\* not fit for outdoor training
C19_Witness ==
    /\ op = "weather"
    /\ result.tier = "primary"
    /\ Len(world.google.days) >= 1
    /\ world.google.days[1].condition = StrCondition("Drizzle")
    /\ world.google.days[1].precipitationProbability = <<49>>
    /\ Forecast[1].condition = XiaoYu
    /\ ~Forecast[1].suitable_for_outdoor

\* the primary provider sent an overcast day with a probability of 49 and
\* the day is fit for outdoor training; with 50 it is not
C19_WitnessDry ==
    /\ op = "weather"
    /\ result.tier = "primary"
    /\ Len(Forecast) >= 2
    /\ Len(world.google.days) = 2
    /\ world.google.days[2].condition = StrCondition("Overcast")
    /\ \/ /\ world.google.days[2].precipitationProbability = <<49>>
          /\ Forecast[2].suitable_for_outdoor
       \/ /\ world.google.days[2].precipitationProbability = <<50>>
          /\ ~Forecast[2].suitable_for_outdoor

\* the positions in the secondary provider's answer of the samples of the
\* date of entry k
SamplesOf(k) == {j \in 1..Len(world.owm.list) : world.owm.list[j].dt = k - 1}

\* the days of the forecast built from samples of the secondary provider
SecondaryDays ==
    IF op = "weather" /\ result.tier = "secondary"
    THEN {k \in 1..Len(Forecast) : SamplesOf(k) # {}} ELSE {}

\* how often condition c is met among the samples of entry k
Frequency(k, c) == Cardinality({j \in SamplesOf(k) : world.owm.list[j].main[1] = c})

\* c is the most frequent condition of entry k; among equally frequent ones
\* it is the one sampled first
MostFrequent(k, c) ==
    /\ \E j \in SamplesOf(k) :
          /\ world.owm.list[j].main[1] = c
          /\ \A h \in SamplesOf(k) :
                \/ Frequency(k, world.owm.list[h].main[1]) < Frequency(k, c)
                \/ /\ Frequency(k, world.owm.list[h].main[1]) = Frequency(k, c)
                   /\ \E e \in SamplesOf(k) :
                         world.owm.list[e].main[1] = c /\ e <= h

\* rain and snow summed over the samples of entry k, in half millimetres
RECURSIVE TotalOver(_)
TotalOver(positions) ==
    IF positions = {} THEN 0
    ELSE LET j == CHOOSE x \in positions : TRUE
         IN  Get(world.owm.list[j].rain, 0) + Get(world.owm.list[j].snow, 0)
                + TotalOver(positions \ {j})

C20_WitnessTie ==
    /\ op = "weather"
    /\ result.tier = "secondary"
    /\ Len(world.owm.list) = 2
    /\ world.owm.list[1].dt = 0 /\ world.owm.list[2].dt = 0
    /\ world.owm.list[1].main = <<Chars("Clear")>>
    /\ world.owm.list[1].rain = <<>>
    /\ world.owm.list[2].main = <<Chars("Rain")>>
    /\ Forecast[1].suitable_for_outdoor

\* entry k holds the fixed defaults
HoldsDefaults(k) ==
    /\ Forecast[k].date = k - 1
    /\ Forecast[k].condition = DuoYun
    /\ Forecast[k].condition_icon = "sun behind cloud"
    /\ Forecast[k].temperature = [high |-> 22, low |-> 15]
    /\ Forecast[k].humidity = 60
    /\ Forecast[k].wind_speed = 10
    /\ Forecast[k].precipitation_probability = 20
    /\ Forecast[k].suitable_for_outdoor

\* what the primary provider sent for a field of day k decides that field
FollowsPrimaryData(k) ==
    LET day == world.google.days[k]
    IN  /\ day.high # <<>> => Forecast[k].temperature.high = day.high[1]
        /\ day.low # <<>> => Forecast[k].temperature.low = day.low[1]
        /\ day.humidity # <<>> => Forecast[k].humidity = day.humidity[1]
        /\ day.precipitationProbability # <<>> =>
              Forecast[k].precipitation_probability = day.precipitationProbability[1]
        /\ day.windSpeed # <<>> /\ day.windSpeed[1] <= 50 =>
              Forecast[k].wind_speed = day.windSpeed[1]

\* the temperatures of entry k are the highest and the lowest sampled
FollowsSecondaryData(k) ==
    /\ \E j \in SamplesOf(k) : world.owm.list[j].temp[1] = Forecast[k].temperature.high
    /\ \E j \in SamplesOf(k) : world.owm.list[j].temp[1] = Forecast[k].temperature.low
    /\ \A j \in SamplesOf(k) :
          /\ world.owm.list[j].temp[1] <= Forecast[k].temperature.high
          /\ world.owm.list[j].temp[1] >= Forecast[k].temperature.low

\* C21: in both provider tiers every requested day the provider supplied no
\* data for holds the fixed defaults (22, 15, 60, 10, 20, cloudy, fit for
\* outdoor training), and a day it supplied data for is built from the data.
C21_PaddingDefaults ==
    /\ op = "weather" /\ result.tier = "primary" =>
          \A k \in 1..Len(Forecast) :
              IF k > Len(world.google.days) THEN HoldsDefaults(k)
              ELSE FollowsPrimaryData(k)
    /\ op = "weather" /\ result.tier = "secondary" =>
          \A k \in 1..Len(Forecast) :
              IF SamplesOf(k) = {} THEN HoldsDefaults(k)
              ELSE FollowsSecondaryData(k)

\* the primary provider sent one day of three asked: the first entry is its
\* day, the other two hold the defaults
C21_Witness ==
    /\ op = "weather"
    /\ result.tier = "primary"
    /\ Len(Forecast) = 3
    /\ world.google.days = <<PlainGoogleDay>>
    /\ Forecast[1].temperature = [high |-> 30, low |-> 20]
    /\ HoldsDefaults(2) /\ HoldsDefaults(3)

\* the secondary provider sent a sample of tomorrow alone: the entry of
\* today holds the defaults, the entry of tomorrow the sample
C21_WitnessSecondary ==
    /\ op = "weather"
    /\ result.tier = "secondary"
    /\ Len(Forecast) >= 2
    /\ Len(world.owm.list) = 1
    /\ world.owm.list[1].dt = 1
    /\ HoldsDefaults(1)
    /\ Forecast[2].temperature = [high |-> 21, low |-> 21]

\* C24: when the primary provider answers successfully with an empty list
\* of days, the primary tier has succeeded: the forecast returned has status
\* "success" and holds the default values on every day, and the secondary
\* provider is not called, even with a secondary credential configured.
C24_EmptyPrimaryAnswer ==
    /\ op = "weather"
    /\ PrimaryCredential
    /\ world.google.status_code = 200
    /\ world.google.json_ok
    /\ world.google.days = <<>>
    => /\ result.exc = NoExc
       /\ result.tier = "primary"
       /\ result.value.status = "success"
       /\ Len(Forecast) = RequestedDays
       /\ \A k \in 1..Len(Forecast) : HoldsDefaults(k)
       /\ Providers = <<"google">>

\* both credentials are configured and the primary provider sends no day
C24_Witness ==
    /\ op = "weather"
    /\ PrimaryCredential
    /\ SecondaryCredential
    /\ world.google.status_code = 200 /\ world.google.json_ok
    /\ world.google.days = <<>>
    /\ Len(Forecast) = 3
    /\ HoldsDefaults(3)
    /\ Providers = <<"google">>

\* C22: in the synthetic tier the condition of day index i in 0..6 is
\* element i of (sunny, cloudy, sunny, light rain, cloudy, sunny, cloudy);
\* the precipitation probability is 70 and the day unfit for outdoor
\* training exactly when the condition contains rain, which is index 3 alone,
\* otherwise 20 and fit; the low temperature is the high minus 5.
C22_MockSequence ==
    op = "mock" =>
        \A k \in 1..Len(result.value.forecast) :
            LET entry == result.value.forecast[k]
                rainy == \E j \in 1..Len(entry.condition) : entry.condition[j] = "U96E8"
            IN  /\ entry.condition =
                      <<QingTian, DuoYun, QingTian, XiaoYu, DuoYun, QingTian, DuoYun>>[k]
                /\ rainy <=> k - 1 = 3
                /\ entry.precipitation_probability = IF rainy THEN 70 ELSE 20
                /\ entry.suitable_for_outdoor <=> ~rainy
                /\ entry.temperature.low = entry.temperature.high - 5

\* a synthetic week: its fourth day is the day of light rain, the others are dry
C22_Witness ==
    /\ op = "mock"
    /\ Len(result.value.forecast) = 7
    /\ result.value.forecast[4].precipitation_probability = 70
    /\ ~result.value.forecast[4].suitable_for_outdoor
    /\ result.value.forecast[7].condition = DuoYun
    /\ result.value.forecast[7].suitable_for_outdoor

(***************************************************************************)
(* Properties of _map_condition_to_chinese and _get_weather_icon.          *)
(***************************************************************************)
\* C11: the normalizer is idempotent on its own output: every label it
\* returns is normalized to itself, and the icon of the label normalized
\* again is the icon of the label.
C11_NormalizerIdempotent ==
    op = "normalize" =>
        /\ map_condition_to_chinese(result.value.label) = result.value.label
        /\ get_weather_icon(map_condition_to_chinese(result.value.label))
              = result.value.icon

\* the keys of the provider table in declaration order, then the keys only
\* the general table has, in declaration order
UnionKeys ==
    [i \in 1..Len(openweather_map) |-> openweather_map[i][1]]
    \o SelectSeq([i \in 1..Len(general_map) |-> general_map[i][1]],
                 LAMBDA k : \A i \in 1..Len(openweather_map) : openweather_map[i][1] # k)

\* the label a table gives a key
LabelIn(table, key) == table[CHOOSE i \in 1..Len(table) : table[i][1] = key][2]

\* the keys of the union related to a string: contained in it or containing it
Related(text) ==
    {i \in 1..Len(UnionKeys) :
        \/ Contains(text, UnionKeys[i])
        \/ Contains(UnionKeys[i], text)}

\* C17: a raw condition is resolved by exact case-insensitive match in the
\* provider table; else by exact case-insensitive match in the general
\* table; else by the first key of the union of both tables that contains or
\* is contained in the lower-cased input; else it is the default cloudy.
C17_NormalizerOrder ==
    op = "normalize" =>
        LET text == Lower(args.condition)
            in_provider == \E i \in 1..Len(openweather_map) : openweather_map[i][1] = text
            in_general == \E i \in 1..Len(general_map) : general_map[i][1] = text
            first == CHOOSE i \in Related(text) : \A j \in Related(text) : i <= j
            first_key == UnionKeys[first]
        IN  result.value.label =
               IF in_provider THEN LabelIn(openweather_map, text)
               ELSE IF in_general THEN LabelIn(general_map, text)
               ELSE IF Related(text) # {} THEN
                    IF \E i \in 1..Len(general_map) : general_map[i][1] = first_key
                    THEN LabelIn(general_map, first_key)
                    ELSE LabelIn(openweather_map, first_key)
               ELSE DuoYun

\* a string holding two keys was given the label of the one that comes
\* first in the union, not of the one that comes first in the string
C17_Witness ==
    /\ op = "normalize"
    /\ args.condition = Chars("sunny and rain")
    /\ result.value.label = YuTian

\* a key of the provider table alone, in capitals
C17_WitnessProvider ==
    /\ op = "normalize"
    /\ args.condition = Chars("HAZE")
    /\ result.value.label = Wu

\* a key of the general table alone
C17_WitnessGeneral ==
    /\ op = "normalize"
    /\ args.condition = Chars("Overcast")
    /\ result.value.label = YinTian

\* a string related to no key
C17_WitnessDefault ==
    /\ op = "normalize"
    /\ args.condition = Chars("Windy")
    /\ Related(Lower(args.condition)) = {}
    /\ result.value.label = DuoYun

\* C18: the icon table is closed over the normalizer's output: every label
\* the normalizer returns has its own entry in the icon table, so the
\* generic default icon is never returned for it.
C18_IconTableClosed ==
    op = "normalize" =>
        /\ \E i \in 1..Len(icon_map) : icon_map[i][1] = result.value.label
        /\ result.value.icon # "sun behind small cloud"

(***************************************************************************)
(* Properties of search_nearby_venues.                                     *)
(***************************************************************************)
Venues == result.value.venues

CategoriesSearched == map_sport_to_place_types(args.sport_type)

\* the categories whose places call raised
RaisingCategories == {c \in DOMAIN world.answers : world.answers[c].raises}

Names(venues) == [k \in 1..Len(venues) |-> venues[k].name]

\* C4: without a maps credential in the session context and in the
\* environment the search returns the error result (status "error", no
\* venues, a message) and issues no places call.
C4_NoCredentialIsError ==
    op = "venues" /\ ~PrimaryCredential =>
        /\ result.value.status = "error"
        /\ result.value.venues = <<>>
        /\ result.value.error_message # ""
        /\ requests = <<>>

\* a session context that holds no key, and no key in the environment
C4_Witness ==
    /\ op = "venues"
    /\ args.tool_context.present
    /\ ~PrimaryCredential
    /\ result.value.status = "error"
    /\ requests = <<>>

\* C5: with a credential, when the places call raises for every category of
\* the sport, the search returns the error result: status "error", no venues
\* and a message.
C5_TotalFailureIsError ==
    /\ op = "venues"
    /\ PrimaryCredential
    /\ world.client_ok
    /\ RaisingCategories = DOMAIN world.answers
    => /\ result.value.status = "error"
       /\ result.value.venues = <<>>

\* C6: when the places call raises for some but not all categories, the
\* status is "success", every category is still searched, and the venues are
\* those of the same search with the failing categories answering nothing,
\* whether the failing category comes before or after the others.
C6_PartialFailureAbsorbed ==
    /\ op = "venues"
    /\ PrimaryCredential
    /\ world.client_ok
    /\ RaisingCategories # {}
    /\ RaisingCategories # DOMAIN world.answers
    => LET calm == [c \in DOMAIN world.answers |->
                       IF c \in RaisingCategories THEN Answers(<<>>)
                       ELSE world.answers[c]]
           without == search_nearby_venues(args.sport_type, args.max_results,
                          args.tool_context, world.environ, world.client_ok, calm)
       IN  /\ result.value.status = "success"
           /\ Venues = without.value.venues
           /\ result.all_venues = without.all_venues
           /\ [k \in 1..Len(requests) |-> requests[k].type] = CategoriesSearched

\* the first category raised and the venue of the second is returned
C6_Witness ==
    /\ op = "venues"
    /\ args.sport_type = ChangPao
    /\ world.answers["park"].raises
    /\ world.answers["route"] = Answers(<<PlaceA>>)
    /\ Names(Venues) = <<"A">>

\* the second category raised and the venue of the first is returned
C6_WitnessAfter ==
    /\ op = "venues"
    /\ args.sport_type = ChangPao
    /\ world.answers["route"].raises
    /\ world.answers["park"] = Answers(<<PlaceA>>)
    /\ Names(Venues) = <<"A">>

\* the place at position i of the answer for the k-th category searched
PlaceAt(k, i) == world.answers[CategoriesSearched[k]].results[i]

\* the places with identifier and location that the answers hold
Listed ==
    {ki \in (1..Len(CategoriesSearched)) \X (1..(MaxPlaces + 1)) :
        /\ ki[2] <= Len(world.answers[CategoriesSearched[ki[1]]].results)
        /\ PlaceAt(ki[1], ki[2]).place_id # <<>>
        /\ PlaceAt(ki[1], ki[2]).geometry # <<>>}

Earlier(a, b) == a[1] < b[1] \/ (a[1] = b[1] /\ a[2] < b[2])

\* C7: no two venues of a result share a place identifier, and the venue kept
\* for an identifier listed under several categories is the one from the
\* first category searched that lists it.
C7_FirstCategoryWins ==
    op = "venues" /\ result.value.status = "success" =>
        /\ \A i, j \in 1..Len(Venues) :
              i # j => Venues[i].place_id # Venues[j].place_id
        /\ \A i \in 1..Len(result.all_venues) :
              \E a \in Listed :
                 /\ PlaceAt(a[1], a[2]).place_id[1] = result.all_venues[i].place_id
                 /\ PlaceAt(a[1], a[2]).name = result.all_venues[i].name
                 /\ \A b \in Listed :
                       PlaceAt(b[1], b[2]).place_id = PlaceAt(a[1], a[2]).place_id
                          => ~Earlier(b, a)

\* the part of C7 that holds: no two venues share a place identifier
C7_NoDuplicateIdentifiers ==
    op = "venues" /\ result.value.status = "success" =>
        \A i, j \in 1..Len(Venues) : i # j => Venues[i].place_id # Venues[j].place_id

\* the identifiers of the candidates before sorting and truncation
CandidateIdentifiers ==
    {result.all_venues[i].place_id : i \in 1..Len(result.all_venues)}

\* C25: every place with identifier and coordinates in the answer of a places
\* call that returned normally is among the candidates before truncation
\* (itself or an earlier venue of the same identifier), also when a place
\* without geometry stands before it in the same answer; and every identifier
\* recorded as seen has a venue among the candidates.
C25_WellFormedPlacesKept ==
    op = "venues" /\ PrimaryCredential /\ world.client_ok =>
        /\ \A a \in Listed :
              ~world.answers[CategoriesSearched[a[1]]].raises
                 => PlaceAt(a[1], a[2]).place_id[1] \in CandidateIdentifiers
        /\ result.seen_place_ids \subseteq CandidateIdentifiers

\* the part of C25 that holds: a candidate's identifier is recorded as seen
C25_CandidatesAreSeen ==
    op = "venues" => CandidateIdentifiers \subseteq result.seen_place_ids

\* x comes before y: nearer, or as near and rated higher
Before(x, y) ==
    \/ x.distance_meters < y.distance_meters
    \/ x.distance_meters = y.distance_meters /\ x.rating > y.rating

\* C8: for max_results >= 0 the venues returned are the first max_results of
\* the deduplicated candidates in the order distance ascending, then rating
\* descending with an unknown rating as 0; A (500 m, 4.0), B (500 m, 4.5) and
\* C (300 m, 2.0) are returned as C, B, A.
C8_SortedPrefix ==
    op = "venues" /\ result.value.status = "success" /\ args.max_results >= 0 =>
        LET candidates == result.all_venues
            kept == {Venues[k] : k \in 1..Len(Venues)}
            all == {candidates[k] : k \in 1..Len(candidates)}
        IN  /\ Len(Venues) = Min(args.max_results, Len(candidates))
            /\ Cardinality(kept) = Len(Venues)
            /\ kept \subseteq all
            /\ \A i, j \in 1..Len(Venues) : i < j => ~Before(Venues[j], Venues[i])
            /\ \A x \in all \ kept : \A y \in kept : ~Before(x, y)
            /\ \A k \in 1..Len(candidates) :
                  candidates[k].name = "N" => candidates[k].rating = 0
            /\ {candidates[k].name : k \in 1..Len(candidates)} = {"A", "B", "C"}
                  /\ args.max_results >= 3
               => Names(Venues) = <<"C", "B", "A">>

\* the example of the claim
C8_Witness ==
    /\ op = "venues"
    /\ args.max_results = 5
    /\ args.sport_type = ChangPao
    /\ world.answers["park"] = Answers(<<PlaceA, PlaceB>>)
    /\ world.answers["route"] = Answers(<<PlaceC>>)
    /\ Names(Venues) = <<"C", "B", "A">>

\* four candidates cut to two, the one of unknown rating behind its equals
C8_WitnessCut ==
    /\ op = "venues"
    /\ args.max_results = 2
    /\ args.sport_type = ChangPao
    /\ world.answers["park"] = Answers(<<PlaceN, PlaceA>>)
    /\ world.answers["route"] = Answers(<<PlaceB, PlaceC>>)
    /\ Names(Venues) = <<"C", "B">>
    /\ Names(result.all_venues) = <<"N", "A", "B", "C">>

\* the table entries whose key is the label, and those whose lower-cased key
\* contains the lower-cased label or is contained in it
EqualKeys(label) == {i \in 1..Len(sport_mapping) : sport_mapping[i][1] = label}

RelatedKeys(label) ==
    {i \in 1..Len(sport_mapping) :
        \/ Contains(Lower(label), Lower(sport_mapping[i][1]))
        \/ Contains(Lower(sport_mapping[i][1]), Lower(label))}

C23_WitnessDefault ==
    /\ op = "venues"
    /\ args.sport_type = Chars("underwater hockey")
    /\ PrimaryCredential /\ world.client_ok
    /\ Len(requests) >= 1
    /\ requests[1].type = "gym"

(***************************************************************************)
(* Properties of get_recommended_gear.                                     *)
(***************************************************************************)
Label == args.sport_type

KeysMatching(label) ==
    {i \in 1..Len(GEAR_MAP) :
        \/ Contains(Lower(label), GEAR_MAP[i][1])
        \/ Contains(GEAR_MAP[i][1], Lower(label))}

\* C9: get_recommended_gear always succeeds and resolves the label by exact
\* match, else by exact match of the lower-cased label, else by the first
\* key in declaration order that contains or is contained in the lower-cased
\* label, else to the generic default; a label related to no key, such as
\* "underwater hockey", gets the generic default with status "success".
C9_GearResolution ==
    op = "gear" =>
        /\ result.value.status = "success"
        /\ result.value.sport_type = Label
        /\ result.value.recommended_gear =
              IF \E i \in 1..Len(GEAR_MAP) : GEAR_MAP[i][1] = Label
                  THEN GEAR_MAP[CHOOSE i \in 1..Len(GEAR_MAP) : GEAR_MAP[i][1] = Label][2]
              ELSE IF \E i \in 1..Len(GEAR_MAP) : GEAR_MAP[i][1] = Lower(Label)
                  THEN GEAR_MAP[CHOOSE i \in 1..Len(GEAR_MAP) :
                                    GEAR_MAP[i][1] = Lower(Label)][2]
              ELSE IF KeysMatching(Label) # {}
                  THEN GEAR_MAP[CHOOSE i \in KeysMatching(Label) :
                                    \A j \in KeysMatching(Label) : i <= j][2]
              ELSE GearSet(<<"sports shoes">>, <<"sportswear", "sports trousers">>,
                           <<"water bottle", "towel">>)
        /\ Label = Chars("underwater hockey") =>
              result.value.recommended_gear =
                 GearSet(<<"sports shoes">>, <<"sportswear", "sports trousers">>,
                         <<"water bottle", "towel">>)

\* the label related to no key
C9_Witness ==
    /\ op = "gear"
    /\ Label = Chars("underwater hockey")
    /\ result.value.status = "success"
    /\ result.value.recommended_gear.shoes = <<"sports shoes">>

\* a label that holds two keys gets the gear of the one declared first
C9_WitnessFirstKey ==
    /\ op = "gear"
    /\ Label = Chars("gym swimming")
    /\ result.value.recommended_gear = SwimmingGear

\* a label in capitals is found through its lower-cased form
C9_WitnessLowerCased ==
    /\ op = "gear"
    /\ Label = Chars("YOGA")
    /\ result.value.recommended_gear = YogaGear

(***************************************************************************)
(* Properties shared by the three lookups by label.                        *)
(***************************************************************************)
\* C26: the empty string is caught by the substring stage of each lookup and
\* does not reach the default: get_recommended_gear("") returns the gear of
\* the first table entry, _map_sport_to_place_types("") the place types of
\* the first table entry, and _map_condition_to_chinese("") the label of the
\* first table entry, sunny, not the default cloudy.
C26_EmptyLabel ==
    /\ op = "gear" /\ args.sport_type = <<>> =>
          /\ result.value.recommended_gear = GEAR_MAP[1][2]
          /\ result.value.recommended_gear # DefaultGear
    /\ op = "place_types" /\ args.sport_type = <<>> =>
          /\ result.value = sport_mapping[1][2]
          /\ result.value # <<"gym", "park">>
    /\ op = "normalize" /\ args.condition = <<>> =>
          /\ result.value.label = openweather_map[1][2]
          /\ result.value.label = QingTian

\* the normalizer applied to the empty string
C26_Witness ==
    /\ op = "normalize"
    /\ args.condition = <<>>
    /\ result.value.label = QingTian
    /\ result.value.icon = "sun"

\* the gear lookup applied to the empty string
C26_WitnessGear ==
    /\ op = "gear"
    /\ args.sport_type = <<>>
    /\ result.value.recommended_gear = RunningGear

\* the place-type lookup applied to the empty string
C26_WitnessPlaceTypes ==
    /\ op = "place_types"
    /\ args.sport_type = <<>>
    /\ result.value = <<"park", "route">>

(***************************************************************************)
(* Properties of _format_distance.                                         *)
(***************************************************************************)
IsDigit(c) == \E i \in 1..10 : DigitChars[i] = c

DigitValue(c) == (CHOOSE i \in 1..10 : DigitChars[i] = c) - 1

\* the number a sequence of digits writes
RECURSIVE ParseDigits(_)
ParseDigits(s) ==
    IF s = <<>> THEN 0
    ELSE 10 * ParseDigits(SubSeq(s, 1, Len(s) - 1)) + DigitValue(s[Len(s)])

AllDigits(s) == Len(s) >= 1 /\ \A i \in 1..Len(s) : IsDigit(s[i])

MetreUnit == <<"U7C73">>
KilometreUnit == <<"U516C", "U91CC">>

\* C16: below 1000 m the distance is written as its whole metres followed by
\* the metre unit; from 1000 m on as kilometres with exactly one decimal,
\* the nearest tenth of a kilometre, followed by the kilometre unit.  850 m
\* gives "850" and the metre unit, 1500 m gives "1.5" and the kilometre unit.
C16_DistanceFormat ==
    op = "format_distance" =>
        LET d == args.distance
            text == result.value
            n == Len(text)
        IN  /\ d < 10000 =>
                 /\ n >= 2
                 /\ SubSeq(text, n, n) = MetreUnit
                 /\ AllDigits(SubSeq(text, 1, n - 1))
                 /\ ParseDigits(SubSeq(text, 1, n - 1)) = d \div 10
                 /\ n - 1 > 1 => text[1] # "0"
            /\ d >= 10000 =>
                 /\ n >= 5
                 /\ SubSeq(text, n - 1, n) = KilometreUnit
                 /\ IsDigit(text[n - 2])
                 /\ text[n - 3] = "."
                 /\ AllDigits(SubSeq(text, 1, n - 4))
                 /\ n - 4 > 1 => text[1] # "0"
                 /\ LET tenths == 10 * ParseDigits(SubSeq(text, 1, n - 4))
                                     + DigitValue(text[n - 2])
                    IN  /\ 1000 * tenths - d <= 500
                        /\ d - 1000 * tenths <= 500
            /\ d = 8500 => text = Chars("850") \o MetreUnit
            /\ d = 15000 => text = Chars("1.5") \o KilometreUnit

\* 850 m was formatted
C16_Witness ==
    /\ op = "format_distance"
    /\ args.distance = 8500
    /\ result.value = <<"8", "5", "0", "U7C73">>

\* 1500 m was formatted
C16_WitnessKilometres ==
    /\ op = "format_distance"
    /\ args.distance = 15000
    /\ result.value = <<"1", ".", "5", "U516C", "U91CC">>

\* 999.9 m, the longest distance still written in metres, was formatted
C16_WitnessBelowChange ==
    /\ op = "format_distance"
    /\ args.distance = 9999
    /\ result.value = <<"9", "9", "9", "U7C73">>

(***************************************************************************)
(* Properties of send_message and create_session.                          *)
(***************************************************************************)
\* the items the events up to the n-th put on the stream, in order
RECURSIVE Relayed(_)
Relayed(n) ==
    IF n = 0 THEN <<>> ELSE Relayed(n - 1) \o EventLines(world.script.events[n])

RunnerCalls == {k \in 1..Len(requests) : requests[k].provider = "runner"}

MissingField ==
    Falsy(args.user_id) \/ Falsy(args.session_id) \/ Falsy(args.message)

\* the runner has raised: it yielded all its events and the body went on
RunnerHasRaised ==
    /\ world.script.raises # <<>>
    /\ result.pc \in {"closed", "aborted"}

\* C27: when the runner raises while its events are relayed by send_message,
\* the exception does not leave the stream: the items relayed so far stay, in
\* order, an error message that carries the exception's text follows them,
\* and "[DONE]" is the last item.  A request without user_id, session_id or
\* message is answered with HTTP 400 and the runner is not called.
C27_StreamSurvivesRunnerError ==
    op = "send_message" =>
        /\ MissingField =>
              /\ result.status = 400
              /\ RunnerCalls = {}
              /\ result.stream = <<>>
        /\ ~MissingField =>
              /\ result.status = 200
              /\ result.exc = NoExc
              /\ result.pc = "relaying" => result.stream = Relayed(result.next - 1)
        /\ ~MissingField /\ RunnerHasRaised =>
              LET before == Relayed(Len(world.script.events))
                  stream == result.stream
                  error_msg == world.script.raises[1].text
              IN  /\ Len(stream) >= Len(before) + 2
                  /\ SubSeq(stream, 1, Len(before)) = before
                  /\ \E k \in (Len(before) + 1)..(Len(stream) - 1) :
                        Contains(stream[k], error_msg)
                  /\ stream[Len(stream)] = DoneMarker

\* two texts were relayed, then the runner raised: the stream holds the two
\* texts, the error message and the marker
C27_Witness ==
    /\ op = "send_message"
    /\ RunnerHasRaised
    /\ world.script.raises[1].class = "ValueError"
    /\ Len(result.stream) = 4
    /\ result.stream[1] = Chars("hi")
    /\ result.stream[2] = Chars("ok")
    /\ Contains(result.stream[3], Chars("Session not found"))
    /\ result.stream[4] = DoneMarker

\* the runner raised the permission error after its final response: the
\* marker of the final response is followed by the eight lines of advice
\* and the marker
C27_WitnessPermission ==
    /\ op = "send_message"
    /\ RunnerHasRaised
    /\ Len(world.script.events) = 1
    /\ Len(result.stream) = 11
    /\ result.stream[1] = Chars("hi")
    /\ result.stream[2] = DoneMarker
    /\ result.stream[11] = DoneMarker

\* a request without message
C27_WitnessRejected ==
    /\ op = "send_message"
    /\ args.message = <<>>
    /\ ~Falsy(args.user_id) /\ ~Falsy(args.session_id)
    /\ result.status = 400
    /\ requests = <<>>

\* C28: create_session sends the message "WELCOME" to the runner once and
\* not more, after the session was created, under the user id and the
\* session id that it returns in the headers X-User-Id and X-Session-Id;
\* when the creation yields no session the response is HTTP 500 and nothing
\* is sent to the runner.
C28_WelcomeOnce ==
    op = "create_session" =>
        /\ Cardinality(RunnerCalls) <= 1
        /\ result.pc \in {"relaying", "closed", "aborted"} => Cardinality(RunnerCalls) = 1
        /\ \A k \in RunnerCalls :
              /\ requests[k].new_message = "WELCOME"
              /\ world.session # <<>>
              /\ result.status = 200
              /\ requests[k].user_id = result.headers["X-User-Id"]
              /\ requests[k].session_id = result.headers["X-Session-Id"]
              /\ requests[k].session_id = world.session[1].id
              /\ \E j \in 1..(k - 1) :
                    /\ requests[j].provider = "session_service"
                    /\ requests[j].user_id = requests[k].user_id
        /\ world.session = <<>> =>
              /\ result.status = 500
              /\ RunnerCalls = {}
        /\ world.session # <<>> =>
              /\ result.status = 200
              /\ result.headers["X-User-Id"] = world.user_id
              /\ result.headers["X-Session-Id"] = world.session[1].id

\* the welcome was sent for session s2 and its answer relayed to the end
C28_Witness ==
    /\ op = "create_session"
    /\ result.pc = "closed"
    /\ world.session = <<[id |-> "s2"]>>
    /\ result.headers["X-Session-Id"] = "s2"
    /\ Cardinality(RunnerCalls) = 1
    /\ requests[2].new_message = "WELCOME"
    /\ requests[2].session_id = "s2"
    /\ Len(result.stream) >= 2

\* no session was created
C28_WitnessNoSession ==
    /\ op = "create_session"
    /\ world.session = <<>>
    /\ result.status = 500
    /\ Len(requests) = 1

(***************************************************************************)
(* Properties of invocations running side by side.                         *)
(***************************************************************************)
\* the identifiers of the places the answers of a search hold
IdentifiersAnswered(c) ==
    UNION {{c.answers[t].results[i].place_id[1] :
               i \in {j \in 1..Len(c.answers[t].results) :
                         c.answers[t].results[j].place_id # <<>>}} :
           t \in DOMAIN c.answers}

\* C14: the operations share no mutable state: under every interleaving of
\* invocations of search_nearby_venues and get_recommended_gear each one
\* returns what it returns when run alone, the deduplication set a search
\* uses holds only identifiers of its own answers, and GEAR_MAP stays as
\* declared.
C14_NoSharedMutableState ==
    /\ gear_table = GEAR_MAP
    /\ \A p \in Procs :
          /\ calls[p].pc = "done" /\ calls[p].kind = "venues" =>
                calls[p].value =
                   search_nearby_venues(calls[p].input.sport_type,
                       calls[p].input.max_results, calls[p].input.tool_context,
                       calls[p].input.environ, calls[p].input.client_ok,
                       calls[p].input.answers).value
          /\ calls[p].pc = "done" /\ calls[p].kind = "gear" =>
                calls[p].value = get_recommended_gear(calls[p].sport_type)
          /\ calls[p].pc \in {"call", "place"} =>
                seen_sets[SeenCell(p)] \subseteq IdentifiersAnswered(calls[p].input)

\* two searches whose answers differ but hold the same place were running
\* at the same time, each with its own deduplication set, and both returned
\* the place
C14_Witness ==
    /\ calls[1].pc = "done" /\ calls[1].kind = "venues"
    /\ calls[2].pc = "done" /\ calls[2].kind = "venues"
    /\ calls[1].input.answers # calls[2].input.answers
    /\ \E i \in 1..Len(calls[1].value.venues) : calls[1].value.venues[i].place_id = "p1"
    /\ \E i \in 1..Len(calls[2].value.venues) : calls[2].value.venues[i].place_id = "p1"
    /\ seen_sets[1] # seen_sets[2]

\* a gear lookup finished while a search was still scanning places
C14_WitnessGear ==
    /\ calls[1].pc = "place"
    /\ calls[2].pc = "done" /\ calls[2].kind = "gear"
    /\ calls[2].value.recommended_gear = SwimmingGear

====
